---- MODULE Spec2Model ----
(***************************************************************************)
(* State-machine model of the build-and-release tooling of the agent      *)
(* repository:                                                             *)
(*   - buildx_build and its timeout-triggered remote-builder fallback      *)
(*     (agent_build_refactored/utils/docker/buildx/build.py)               *)
(*   - ContainerisedAgentBuilder.generate_final_registry_tags              *)
(*     (agent_build_refactored/container_images/image_builders.py)         *)
(*   - build_agent_image_dependencies                                      *)
(*     (agent_build_refactored/container_images/dependencies/__init__.py)  *)
(*   - the EC2 teardown, add_current_ip_to_prefix_list and the             *)
(*     prefix-list cleanup                                                 *)
(*     (agent_build_refactored/tools/build_on_ec2/__init__.py)             *)
(*   - ContainerisedAgentBuilder._build and publish                        *)
(*     (agent_build_refactored/container_images/image_builders.py)         *)
(*                                                                         *)
(* Python's Optional values are modelled as sets: None is {} and a value   *)
(* v is {v}.  Strings are TLA+ strings and f-strings are concatenations.   *)
(***************************************************************************)
EXTENDS Integers, Sequences, FiniteSets, TLC

VARIABLES
    \* ---- module-level settings of build.py, read from the environment
    USE_GHA_CACHE,
    CACHE_VERSION,
    ALLOW_FALLBACK_TO_REMOTE_BUILDER,
    \* ---- one buildx_build call
    bx_pc,              \* position inside buildx_build
    bx_call,            \* the arguments of the call
    cmd_args,           \* local variable cmd_args
    fallback_timeout,   \* local variable fallback_timeout (Optional)
    retry,              \* local variable retry
    process,            \* the Popen child: "none", "running", "exited", "terminated"
    returncode,         \* process.returncode (Optional)
    stdout,             \* local variable stdout: "unbound", or Optional bytes
    output_buffer,      \* chunks written to output_buffer
    stderr_buffer,      \* chunks written to sys.stderr.buffer
    remote_runs,        \* argument lists given to subprocess.run, in order
    remote_returncode,  \* exit code of the remote build (Optional)
    builder_lookups,    \* architectures given to get_remote_builder, in order
    process_tree,       \* the child's process tree when the wait expired: pid -> parent pid
    terminations,       \* the pids terminate() was called on, in order
    fs,                 \* the file system: path -> "absent", "tarball", "tree"
    extractions,        \* number of tarfile.extractall calls of this call
    bx_result,          \* how the call ended: kind "none", "returned", "raised"
    \* ---- one generate_final_registry_tags call
    tg_pc,              \* "start" or "done"
    tg_cls,             \* the builder class (self.__class__)
    tg_registry,        \* argument registry
    tg_user,            \* argument user
    tg_tags,            \* argument tags
    tg_result,          \* the returned list
    \* ---- build_agent_image_dependencies, one process
    _existing_built_dependencies,   \* base_distro -> set of architectures
    dp_result_dirs,     \* the (distro, arch) pairs whose result_dir exists on disk
    dp_output_dir,      \* the pairs whose result tree was copied into output_dir
    dp_builds,          \* pair -> number of buildx_build invocations so far
    dp_builds_ok,       \* pair -> number of those that succeeded
    dp_calls,           \* number of calls made so far
    dp_last,            \* what the last call did
    \* ---- the shared prefix list and one cleanup_old_prefix_list_entries call
    pl_entries,         \* the entries of the prefix list, in listing order
    pl_version,         \* its version
    pl_concurrent,      \* modifications made by other runs so far
    current_time,       \* time.time() at the cleanup
    pl_pc,              \* position inside cleanup_old_prefix_list_entries / _remove_entries
    pl_prefix,          \* argument ec2_objects_name_prefix (Optional)
    entries,            \* local variable entries (the listing read)
    entries_to_remove,  \* local dict entries_to_remove, as its values in insertion order
    attempts,           \* _remove_entries: local variable attempts
    version,            \* _remove_entries: local variable version (Optional)
    pl_requests,        \* number of modify_managed_prefix_list requests sent
    pl_last_request,    \* the last request sent
    pl_result,          \* how the cleanup ended
    pl_error,           \* _remove_entries: the ClientError e last caught (Optional)
    \* ---- one destroy_node_and_cleanup call
    dn_pc,              \* position inside destroy_node_and_cleanup / destroy_volume_with_retry
    node,               \* argument node
    volumes,            \* local variable volumes
    remaining_volumes,  \* local variable remaining_volumes
    dn_polls,           \* iterations of the wait loop so far
    dn_i,               \* index of the for loop over volumes
    retry_count,        \* destroy_volume_with_retry: retry_count
    destroyed,          \* destroy_volume_with_retry: destroyed
    dn_api,             \* the driver calls made, in order
    dn_destroyed,       \* ids of the volumes the driver destroyed
    dn_node_error,      \* the exception e caught at line 405 (Optional)
    dn_volume_error,    \* destroy_volume_with_retry: the exception e last caught (Optional)
    dn_result,          \* how the call ended
    \* ---- one add_current_ip_to_prefix_list call
    ad_pc,              \* position inside add_current_ip_to_prefix_list
    ad_prefix,          \* argument ec2_objects_name_prefix (Optional)
    ip_attempts,        \* local variable attempts of the public-IP loop (lines 320-330)
    new_cidr,           \* local variable new_cidr (Optional)
    ad_attempts,        \* local variable attempts of the modify loop (line 336)
    ad_version,         \* local variable version (Optional)
    ad_reads,           \* number of get_prefix_list_version calls of this call
    ad_requests,        \* number of modify_managed_prefix_list requests of this call
    ad_last_request,    \* the last request sent
    ad_accepted,        \* number of those requests the service accepted
    ad_start,           \* the Cidrs listed when the call started
    others_added,       \* Cidrs added by other runs during the call
    others_removed,     \* Cidrs removed by other runs during the call
    ad_result,          \* how the call ended
    \* ---- ContainerisedAgentBuilder: the classes' flags and one build or publish call
    _requirements_libs_already_built,   \* class NAME -> the class attribute as the class sees it
    _final_image_base_already_built,    \* class NAME -> the class attribute as the class sees it
    ib_pc,              \* position inside build / publish
    ib_op,              \* the method called: "build" or "publish"
    ib_self,            \* the instance: its class and an identity
    ib_arch,            \* build_requirement_libs: position in SUPPORTED_ARCHITECTURES
    pub_tags,           \* publish: argument tags
    existing_oci_layout_dir,    \* publish: argument (Optional)
    registry_username,  \* publish: argument (Optional)
    registry_password,  \* publish: argument (Optional)
    oci_layer,          \* publish: local variable oci_layer (Optional)
    publish_cmd_args,   \* publish: local variable cmd_args
    ib_tag,             \* publish: position of the for loop in tags
    ib_log,             \* what the call has done so far, in order
    ib_ops,             \* number of build / publish calls made in this process
    stage_completions,  \* class NAME, stage -> number of times the stage completed
    ib_result,          \* how the call ended
    \* ---- one cleanup_old_ec2_test_instance call
    cn_pc,              \* position inside cleanup_old_ec2_test_instance
    cn_prefix,          \* argument ec2_objects_name_prefix (Optional)
    nodes,              \* local variable nodes (what list_nodes returned)
    nodes_to_delete,    \* local variable nodes_to_delete
    cn_i,               \* index of the for loop over nodes_to_delete
    cn_destroy_calls,   \* the nodes handed to destroy_node_and_cleanup, in order
    cn_result,          \* how the call ended
    \* ---- one create_ec2_instance_node or run_ec2_instance call
    pv_pc,              \* the statement the call is at
    pv_fn,              \* the function called
    pv_prefix,          \* ec2_objects_name_prefix / unique_id (Optional)
    pv_log,             \* the steps of the call that have ended, in order, with their outcome
    pv_node,            \* the node deploy_node returned (Optional)
    pv_result           \* how the call ended

bx_vars == <<bx_pc, bx_call, cmd_args, fallback_timeout, retry, process, returncode,
             stdout, output_buffer, stderr_buffer, remote_runs, remote_returncode,
             builder_lookups, process_tree, terminations, fs, extractions, bx_result>>

env_vars == <<USE_GHA_CACHE, CACHE_VERSION, ALLOW_FALLBACK_TO_REMOTE_BUILDER>>

tg_vars == <<tg_pc, tg_cls, tg_registry, tg_user, tg_tags, tg_result>>

dp_vars == <<_existing_built_dependencies, dp_result_dirs, dp_output_dir, dp_builds,
             dp_builds_ok, dp_calls, dp_last>>

pl_vars == <<pl_entries, pl_version, pl_concurrent, current_time, pl_pc, pl_prefix,
             entries, entries_to_remove, attempts, version, pl_requests,
             pl_last_request, pl_result,
                   pl_error>>

dn_vars == <<dn_pc, node, volumes, remaining_volumes, dn_polls, dn_i, retry_count,
             destroyed, dn_api, dn_destroyed, dn_node_error, dn_volume_error, dn_result>>

ad_vars == <<ad_pc, ad_prefix, ip_attempts, new_cidr, ad_attempts, ad_version, ad_reads,
             ad_requests, ad_last_request, ad_accepted, ad_start, others_added,
             others_removed, ad_result>>

ib_vars == <<_requirements_libs_already_built, _final_image_base_already_built, ib_pc,
             ib_op, ib_self, ib_arch, pub_tags, existing_oci_layout_dir, registry_username,
             registry_password, oci_layer, publish_cmd_args, ib_tag, ib_log, ib_ops,
             stage_completions, ib_result>>

cn_vars == <<cn_pc, cn_prefix, nodes, nodes_to_delete, cn_i, cn_destroy_calls, cn_result>>

pv_vars == <<pv_pc, pv_fn, pv_prefix, pv_log, pv_node, pv_result>>

vars == <<env_vars, bx_vars, tg_vars, dp_vars, pl_vars, dn_vars, ad_vars, ib_vars,
          cn_vars, pv_vars>>

\* what the buildx_build steps leave alone
BxFrame == UNCHANGED <<env_vars, tg_vars, dp_vars, pl_vars, dn_vars, ad_vars, ib_vars,
                        cn_vars, pv_vars>>

-----------------------------------------------------------------------------
(* Bounds of the model.                                                    *)

\* longest architecture list passed to buildx_build
MaxArchs == 2

\* longest tag list passed to generate_final_registry_tags
MaxTags == 2

\* number of build_agent_image_dependencies calls in one process
MaxDepCalls == 3

\* longest prefix list
MaxEntries == 2

\* modifications of the prefix list by other runs during one cleanup
MaxConcurrentMods == 1

\* longest volume list the driver returns for a node
MaxVolumes == 2

\* polls of the wait loop that still find a volume attached
MaxPolls == 2

\* entries of other runs in the prefix list when add_current_ip_to_prefix_list starts
MaxOtherEntries == 1

\* instances of one builder class in one process
MaxInstances == 2

\* longest tag list passed to publish
MaxPublishTags == 2

\* build / publish calls made in one process
MaxBuilderOps == 2

\* longest node list the driver returns
MaxNodes == 2

\* processes in the tree of the build child when the bounded wait expires
MaxProcesses == 3

-----------------------------------------------------------------------------
(* Values.                                                                 *)

None == {}

Some(v) == {v}

\* Python truthiness of an Optional[str]
Truthy(o) == o # None /\ o # Some("")

TheValue(o) == CHOOSE v \in o : TRUE

CpuArch == {"x86_64", "aarch64", "armv7"}

AsDockerPlatform(arch) ==
    CASE arch = "x86_64" -> "linux/amd64"
      [] arch = "aarch64" -> "linux/arm64"
      [] arch = "armv7" -> "linux/arm/v7"

SeqsUpTo(S, n) == UNION {[1..k -> S] : k \in 0..n}

\* architecture: Union[CpuArch, List[CpuArch]]
ArchitectureArgs ==
    {[isList |-> FALSE, archs |-> <<a>>] : a \in CpuArch}
        \cup {[isList |-> TRUE, archs |-> s] : s \in SeqsUpTo(CpuArch, MaxArchs)}

NoOutput == [kind |-> "none", dest |-> "", name |-> "", extract |-> FALSE]

LocalDirectoryBuildOutput(dest) ==
    [kind |-> "local", dest |-> dest, name |-> "", extract |-> FALSE]

DockerImageBuildOutput(name) ==
    [kind |-> "docker", dest |-> "", name |-> name, extract |-> FALSE]

OCITarballBuildOutput(dest, extract) ==
    [kind |-> "oci", dest |-> dest, name |-> "", extract |-> extract]

\* a tarball_path that ignores the extract flag
tarball_path_always_dest(output) == output.dest

\* OCITarballBuildOutput.tarball_path
tarball_path(output) ==
    IF output.extract THEN output.dest \o ".tar" ELSE output.dest

to_docker_output_option(output) ==
    CASE output.kind = "local" -> "type=local,dest=" \o output.dest
      [] output.kind = "docker" -> "type=docker"
      [] output.kind = "oci" -> "type=oci,dest=" \o tarball_path(output)

OutputArgs ==
    {NoOutput,
     LocalDirectoryBuildOutput("/out/libs"),
     DockerImageBuildOutput("img"),
     OCITarballBuildOutput("/out/oci", TRUE),
     OCITarballBuildOutput("/out/oci", FALSE)}

Paths == {"/out/libs", "/out/oci", "/out/oci.tar"}

CacheNameArgs == {None, Some(""), Some("deps")}

StageArgs == {None, Some("requirement_libs")}

BuildxCalls ==
    [dockerfile_path : {"Dockerfile"},
     context_path : {"ctx"},
     architecture : ArchitectureArgs,
     build_args : {<<<<"BASE_DISTRO", "ubuntu">>>>},
     build_contexts : {<<<<"base_image", "docker-image://ubuntu:22.04">>>>},
     stage : StageArgs,
     output : OutputArgs,
     cache_name : CacheNameArgs,
     fallback_to_remote_builder : BOOLEAN,
     capture_output : BOOLEAN]

NoCall ==
    [dockerfile_path |-> "", context_path |-> "",
     architecture |-> [isList |-> TRUE, archs |-> <<>>],
     build_args |-> <<>>, build_contexts |-> <<>>, stage |-> None,
     output |-> NoOutput, cache_name |-> None,
     fallback_to_remote_builder |-> FALSE, capture_output |-> FALSE]

-----------------------------------------------------------------------------
(* buildx_build: the argument list.                                        *)

_get_gha_cache_scope(name) ==
    IF CACHE_VERSION # "" THEN name \o "_" \o CACHE_VERSION ELSE name

_get_local_cache_dir(name) == "/agent_build_output/docker_cache/" \o name

PlatformOptions(used_architectures) ==
    [i \in 1..Len(used_architectures) |->
        "--platform=" \o AsDockerPlatform(used_architectures[i])]

BuildArgOptions(build_args) ==
    [i \in 1..Len(build_args) |->
        "--build-arg=" \o build_args[i][1] \o "=" \o build_args[i][2]]

BuildContextOptions(build_contexts) ==
    [i \in 1..Len(build_contexts) |->
        "--build-context=" \o build_contexts[i][1] \o "=" \o build_contexts[i][2]]

StageOptions(stage) ==
    IF Truthy(stage) THEN <<"--target=" \o TheValue(stage)>> ELSE <<>>

CacheOptions(cache_name) ==
    IF Truthy(cache_name)
    THEN IF USE_GHA_CACHE
         THEN <<"--cache-from=type=gha,scope=" \o _get_gha_cache_scope(TheValue(cache_name)),
                "--cache-to=type=gha,scope=" \o _get_gha_cache_scope(TheValue(cache_name))>>
         ELSE <<"--cache-from=type=local,src=" \o _get_local_cache_dir(TheValue(cache_name)),
                "--cache-to=type=local,dest=" \o _get_local_cache_dir(TheValue(cache_name))>>
    ELSE <<>>

OutputOptions(output) ==
    IF output.kind # "none"
    THEN <<"--output=" \o to_docker_output_option(output)>>
            \o (IF output.kind = "docker" THEN <<"-t=" \o output.name>> ELSE <<>>)
    ELSE <<>>

BuildCmdArgs(c) ==
    <<"docker", "buildx", "build", "-f=" \o c.dockerfile_path, "--progress=plain">>
        \o PlatformOptions(c.architecture.archs)
        \o BuildArgOptions(c.build_args)
        \o BuildContextOptions(c.build_contexts)
        \o StageOptions(c.stage)
        \o CacheOptions(c.cache_name)
        \o OutputOptions(c.output)
        \o <<c.context_path>>

single_arch(architecture) ==
    (~architecture.isList) \/ Len(architecture.archs) = 1

allow_fallback_to_remote_builder(c) ==
    ALLOW_FALLBACK_TO_REMOTE_BUILDER /\ single_arch(c.architecture)

\* a bounded wait that is armed whatever the number of architectures
FallbackTimeoutAnyArchs(c) ==
    IF Truthy(c.cache_name) /\ c.fallback_to_remote_builder
            /\ ALLOW_FALLBACK_TO_REMOTE_BUILDER
    THEN IF USE_GHA_CACHE THEN Some(60 * 2) ELSE Some(40)
    ELSE None

FallbackTimeout(c) ==
    IF Truthy(c.cache_name) /\ c.fallback_to_remote_builder
            /\ allow_fallback_to_remote_builder(c)
    THEN IF USE_GHA_CACHE THEN Some(60 * 2) ELSE Some(40)
    ELSE None

-----------------------------------------------------------------------------
(* buildx_build: the call, step by step.                                   *)

ExitCodes == {0, 1}

NoResult == [kind |-> "none", exc |-> "", value |-> None]

Returned(v) == [kind |-> "returned", exc |-> "", value |-> v]

Raised(e) == [kind |-> "raised", exc |-> e, value |-> None]

\* get_remote_builder(architecture).name
RemoteBuilderName(arch) == "agent_cicd_remote_builder_" \o arch

\* What a successful run of the build engine leaves on disk for --output.
EngineWrites(f, output) ==
    CASE output.kind = "oci" -> [f EXCEPT ![tarball_path(output)] = "tarball"]
      [] output.kind = "local" -> [f EXCEPT ![output.dest] = "tree"]
      [] OTHER -> f

BxInit ==
    /\ bx_pc = "idle"
    /\ bx_call = NoCall
    /\ cmd_args = <<>>
    /\ fallback_timeout = None
    /\ retry = FALSE
    /\ process = "none"
    /\ returncode = None
    /\ stdout = <<>>
    /\ output_buffer = <<>>
    /\ stderr_buffer = <<>>
    /\ remote_runs = <<>>
    /\ remote_returncode = None
    /\ builder_lookups = <<>>
    /\ process_tree = <<>>
    /\ terminations = <<>>
    /\ fs = [p \in Paths |-> "absent"]
    /\ extractions = 0
    /\ bx_result = NoResult

EnvInit ==
    /\ USE_GHA_CACHE \in BOOLEAN
    /\ CACHE_VERSION \in {"", "v2"}
    /\ ALLOW_FALLBACK_TO_REMOTE_BUILDER \in BOOLEAN

\* the settings when the environment sets none of the three variables
EnvIdle ==
    /\ USE_GHA_CACHE = FALSE
    /\ CACHE_VERSION = ""
    /\ ALLOW_FALLBACK_TO_REMOTE_BUILDER = FALSE

\* lines 98-188: assemble cmd_args, decide the bounded wait, start the child
BuildxBuild ==
    /\ bx_pc = "idle"
    /\ \E c \in BuildxCalls :
        /\ bx_call' = c
        /\ cmd_args' = BuildCmdArgs(c)
        /\ fallback_timeout' = FallbackTimeout(c)
    /\ retry' = FALSE
    /\ process' = "running"
    /\ returncode' = None
    /\ stdout' = <<>>
    /\ output_buffer' = <<>>
    /\ stderr_buffer' = <<>>
    /\ remote_runs' = <<>>
    /\ remote_returncode' = None
    /\ builder_lookups' = <<>>
    /\ process_tree' = <<>>
    /\ terminations' = <<>>
    /\ fs' = [p \in Paths |-> "absent"]
    /\ extractions' = 0
    /\ bx_result' = NoResult
    /\ bx_pc' = "communicate"
    /\ BxFrame

\* line 193: communicate returns, the child has exited with code rc
Communicate(rc) ==
    /\ bx_pc = "communicate"
    /\ process' = "exited"
    /\ returncode' = Some(rc)
    /\ stdout' = <<IF bx_call.capture_output THEN Some("local_output") ELSE None>>
    /\ fs' = IF rc = 0 THEN EngineWrites(fs, bx_call.output) ELSE fs
    /\ bx_pc' = "write_stdout"
    /\ UNCHANGED <<bx_call, cmd_args, fallback_timeout, retry, output_buffer,
                   stderr_buffer, remote_runs, remote_returncode, builder_lookups, process_tree,
                   terminations, extractions, bx_result>>
    /\ BxFrame

\* The process tree under the build child, as psutil sees it: the pids are
\* 1..n, pid 1 is the build child (process.pid) and tree[p] is the parent
\* of pid p (0 for the build child).
ProcessTrees ==
    UNION {{t \in [1..n -> 0..(n - 1)] :
                /\ t[1] = 0
                /\ \A p \in 2..n : t[p] \in 1..(p - 1)} :
           n \in 1..MaxProcesses}

\* line 248: _process.children(), in pid order
Children(tree, p) ==
    SelectSeq([i \in 1..Len(tree) |-> i], LAMBDA c : tree[c] = p)

RECURSIVE terminate_parent_first(_, _)
\* a traversal that terminates a process before its children
terminate_parent_first(tree, p) ==
    LET child_processes == Children(tree, p)
        Rest[i \in 0..Len(child_processes)] ==
            IF i = 0
            THEN <<>>
            ELSE Rest[i - 1] \o terminate_parent_first(tree, child_processes[i])
    IN  <<p>> \o Rest[Len(child_processes)]

RECURSIVE terminate_children_processes(_, _)
\* lines 247-255: the terminate() calls made for the process p, in order
terminate_children_processes(tree, p) ==
    LET child_processes == Children(tree, p)
        Rest[i \in 0..Len(child_processes)] ==
            IF i = 0
            THEN <<>>
            ELSE Rest[i - 1] \o terminate_children_processes(tree, child_processes[i])
    IN  Rest[Len(child_processes)] \o <<p>>

\* lines 244-261
_stop_buildx_build_process(tree) == terminate_children_processes(tree, 1)

\* lines 194-198 and 244-261: the bounded wait expires, the child's process
\* tree is terminated; nothing waits for the child, returncode stays None
CommunicateTimeout ==
    /\ bx_pc = "communicate"
    /\ fallback_timeout # None
    /\ \E tree \in ProcessTrees :
        /\ process_tree' = tree
        /\ terminations' = _stop_buildx_build_process(tree)
    /\ process' = "terminated"
    /\ retry' = TRUE
    /\ bx_pc' = "write_stdout"
    /\ UNCHANGED <<bx_call, cmd_args, fallback_timeout, returncode, stdout,
                   output_buffer, stderr_buffer, remote_runs, remote_returncode, builder_lookups, fs,
                   extractions, bx_result>>
    /\ BxFrame

\* lines 200-201: output_buffer.write(stdout); stdout was never assigned when
\* communicate raised TimeoutExpired
WriteStdout ==
    /\ bx_pc = "write_stdout"
    /\ IF bx_call.capture_output
       THEN IF stdout = <<>>
            THEN /\ bx_result' = Raised("UnboundLocalError")
                 /\ bx_pc' = "done"
                 /\ UNCHANGED output_buffer
            ELSE /\ output_buffer' = Append(output_buffer, TheValue(stdout[1]))
                 /\ bx_pc' = "check_returncode"
                 /\ UNCHANGED bx_result
       ELSE /\ bx_pc' = "check_returncode"
            /\ UNCHANGED <<output_buffer, bx_result>>
    /\ UNCHANGED <<bx_call, cmd_args, fallback_timeout, retry, process, returncode,
                   stdout, stderr_buffer, remote_runs, remote_returncode, builder_lookups, process_tree,
                   terminations, fs, extractions>>
    /\ BxFrame

\* an exit code check that never fires
BuildFailedNever == FALSE

\* line 203
BuildFailed == (~retry) /\ returncode # Some(0)

\* lines 203-208
CheckReturncode ==
    /\ bx_pc = "check_returncode"
    /\ IF BuildFailed
       THEN /\ stderr_buffer' = IF bx_call.capture_output
                                THEN stderr_buffer \o output_buffer
                                ELSE stderr_buffer
            /\ bx_result' = Raised("Build command has failed.")
            /\ bx_pc' = "done"
       ELSE /\ bx_pc' = IF retry THEN "get_remote_builder" ELSE "extract"
            /\ UNCHANGED <<stderr_buffer, bx_result>>
    /\ UNCHANGED <<bx_call, cmd_args, fallback_timeout, retry, process, returncode,
                   stdout, output_buffer, remote_runs, remote_returncode, builder_lookups, process_tree,
                   terminations, fs, extractions>>
    /\ BxFrame

\* lines 212-215
remote_builder_arch(architecture) == architecture.archs[1]

\* lines 217-221: the lookup succeeds (ok) or provisioning fails
GetRemoteBuilder(ok) ==
    /\ bx_pc = "get_remote_builder"
    /\ builder_lookups' = Append(builder_lookups, remote_builder_arch(bx_call.architecture))
    /\ IF ok
       THEN bx_pc' = "remote_run" /\ UNCHANGED bx_result
       ELSE bx_pc' = "done" /\ bx_result' = Raised("RemoteBuilderError")
    /\ UNCHANGED <<bx_call, cmd_args, fallback_timeout, retry, process, returncode,
                   stdout, output_buffer, stderr_buffer, remote_runs, remote_returncode,
                   process_tree, terminations, fs, extractions>>
    /\ BxFrame

\* lines 223-227
RemoteCmdArgs ==
    Append(cmd_args, "--builder=" \o RemoteBuilderName(remote_builder_arch(bx_call.architecture)))

\* subprocess.run without check=True
CalledProcessErrorNever(rc) == FALSE

\* line 228: check=True makes subprocess.run raise on a non-zero exit code
CalledProcessError(rc) == rc # 0

\* lines 223-233: subprocess.run(..., check=True) on the remote builder, then
\* output_buffer.write(result.stdout.decode()): a str written to a BytesIO
RemoteRun(rc) ==
    /\ bx_pc = "remote_run"
    /\ remote_runs' = Append(remote_runs, RemoteCmdArgs)
    /\ remote_returncode' = Some(rc)
    /\ IF CalledProcessError(rc)
       THEN /\ bx_result' = Raised("CalledProcessError")
            /\ bx_pc' = "done"
            /\ UNCHANGED fs
       ELSE /\ fs' = EngineWrites(fs, bx_call.output)
            /\ IF bx_call.capture_output
               THEN bx_result' = Raised("TypeError") /\ bx_pc' = "done"
               ELSE bx_pc' = "extract" /\ UNCHANGED bx_result
    /\ UNCHANGED <<bx_call, cmd_args, fallback_timeout, retry, process, returncode,
                   stdout, output_buffer, stderr_buffer, builder_lookups, process_tree,
                   terminations, extractions>>
    /\ BxFrame

\* line 236
ExtractWanted(output) == output.kind = "oci" /\ output.extract

\* lines 235-238
Extract ==
    /\ bx_pc = "extract"
    /\ IF ExtractWanted(bx_call.output)
       THEN IF fs[tarball_path(bx_call.output)] = "tarball"
            THEN /\ fs' = [fs EXCEPT ![bx_call.output.dest] = "tree"]
                 /\ extractions' = extractions + 1
                 /\ bx_pc' = "return"
                 /\ UNCHANGED bx_result
            ELSE /\ bx_result' = Raised("FileNotFoundError")
                 /\ bx_pc' = "done"
                 /\ UNCHANGED <<fs, extractions>>
       ELSE /\ bx_pc' = "return"
            /\ UNCHANGED <<fs, extractions, bx_result>>
    /\ UNCHANGED <<bx_call, cmd_args, fallback_timeout, retry, process, returncode,
                   stdout, output_buffer, stderr_buffer, remote_runs, remote_returncode, builder_lookups, process_tree,
                   terminations>>
    /\ BxFrame

\* lines 240-241
Return ==
    /\ bx_pc = "return"
    /\ bx_result' = Returned(IF bx_call.capture_output THEN Some(output_buffer) ELSE None)
    /\ bx_pc' = "done"
    /\ UNCHANGED <<bx_call, cmd_args, fallback_timeout, retry, process, returncode,
                   stdout, output_buffer, stderr_buffer, remote_runs, remote_returncode, builder_lookups, process_tree,
                   terminations,
                   fs, extractions>>
    /\ BxFrame

BxNext ==
    \/ BuildxBuild
    \/ \E rc \in ExitCodes : Communicate(rc)
    \/ CommunicateTimeout
    \/ WriteStdout
    \/ CheckReturncode
    \/ \E ok \in BOOLEAN : GetRemoteBuilder(ok)
    \/ \E rc \in ExitCodes : RemoteRun(rc)
    \/ Extract
    \/ Return

-----------------------------------------------------------------------------
(* ContainerisedAgentBuilder.generate_final_registry_tags.                 *)

ImageType == {"k8s", "docker-json", "docker-syslog", "docker-api"}

_IMAGE_REGISTRY_NAMES(image_type) ==
    CASE image_type = "k8s" -> <<"scalyr-k8s-agent">>
      [] image_type = "docker-json" -> <<"scalyr-agent-docker-json">>
      [] image_type = "docker-syslog" -> <<"scalyr-agent-docker-syslog", "scalyr-agent-docker">>
      [] image_type = "docker-api" -> <<"scalyr-agent-docker-api">>

\* the classes created by the loop over base distros and image types
ALL_CONTAINERISED_AGENT_BUILDERS ==
    {[NAME |-> image_type \o "-" \o base_distro,
      BASE_DISTRO |-> base_distro,
      IMAGE_TYPE |-> image_type,
      TAG_SUFFIXES |-> <<"-" \o base_distro>>
                        \o (IF base_distro = "ubuntu" THEN <<"">> ELSE <<>>)] :
        base_distro \in {"ubuntu", "alpine"}, image_type \in ImageType}

NoBuilder == [NAME |-> "", BASE_DISTRO |-> "", IMAGE_TYPE |-> "", TAG_SUFFIXES |-> <<>>]

\* line 166
final_name(registry, user, image_name, tag, tag_suffix) ==
    registry \o "/" \o user \o "/" \o image_name \o ":" \o tag \o tag_suffix

RECURSIVE ForTagSuffixes(_, _, _, _, _, _)
\* lines 165-167: the inner loop, appending to result_names
ForTagSuffixes(result_names, registry, user, image_name, tag, suffixes) ==
    IF suffixes = <<>>
    THEN result_names
    ELSE ForTagSuffixes(
            Append(result_names, final_name(registry, user, image_name, tag, Head(suffixes))),
            registry, user, image_name, tag, Tail(suffixes))

RECURSIVE ForTags(_, _, _, _, _, _)
\* lines 164-167: the middle loop
ForTags(result_names, registry, user, image_name, tags, suffixes) ==
    IF tags = <<>>
    THEN result_names
    ELSE ForTags(
            ForTagSuffixes(result_names, registry, user, image_name, Head(tags), suffixes),
            registry, user, image_name, Tail(tags), suffixes)

RECURSIVE ForImageNames(_, _, _, _, _, _)
\* lines 163-167: the outer loop
ForImageNames(result_names, registry, user, image_names, tags, suffixes) ==
    IF image_names = <<>>
    THEN result_names
    ELSE ForImageNames(
            ForTags(result_names, registry, user, Head(image_names), tags, suffixes),
            registry, user, Tail(image_names), tags, suffixes)

RECURSIVE ForTagsOuter(_, _, _, _, _, _)
\* the loops nested the other way round: tag outside, image name inside
ForTagsOuter(result_names, registry, user, image_names, tags, suffixes) ==
    IF tags = <<>>
    THEN result_names
    ELSE ForTagsOuter(
            ForImageNames(result_names, registry, user, image_names, <<Head(tags)>>, suffixes),
            registry, user, image_names, Tail(tags), suffixes)

generate_final_registry_tags_tag_outer(cls, registry, user, tags) ==
    ForTagsOuter(<<>>, registry, user, _IMAGE_REGISTRY_NAMES(cls.IMAGE_TYPE), tags,
                 cls.TAG_SUFFIXES)

\* lines 148-169
generate_final_registry_tags(cls, registry, user, tags) ==
    ForImageNames(<<>>, registry, user, _IMAGE_REGISTRY_NAMES(cls.IMAGE_TYPE), tags,
                  cls.TAG_SUFFIXES)

TagArgs == SeqsUpTo({"latest", "test", "v1"}, MaxTags)

TgIdle ==
    /\ tg_pc = "start"
    /\ tg_cls = NoBuilder
    /\ tg_registry = ""
    /\ tg_user = ""
    /\ tg_tags = <<>>
    /\ tg_result = <<>>

GenerateFinalRegistryTags ==
    /\ tg_pc = "start"
    /\ tg_result' = generate_final_registry_tags(tg_cls, tg_registry, tg_user, tg_tags)
    /\ tg_pc' = "done"
    /\ UNCHANGED <<tg_cls, tg_registry, tg_user, tg_tags>>
    /\ UNCHANGED <<env_vars, bx_vars, dp_vars, pl_vars, dn_vars, ad_vars, ib_vars,
                        cn_vars, pv_vars>>

-----------------------------------------------------------------------------
(* build_agent_image_dependencies.                                         *)

\* the keys of BASE_DISTRO_IMAGE_NAMES
BaseDistros == {"ubuntu", "alpine"}

DepPairs == BaseDistros \X CpuArch

\* line 30
DepCacheName(base_distro, architecture) ==
    "agent_container_image_dependencies_" \o base_distro \o "_" \o architecture

\* line 31
DepResultDir(base_distro, architecture) ==
    "/agent_build_output/" \o DepCacheName(base_distro, architecture)

\* a membership test that never finds the architecture
AlreadyBuiltNever(base_distro, architecture) == FALSE

\* line 45
AlreadyBuilt(base_distro, architecture) ==
    architecture \in _existing_built_dependencies[base_distro]

\* lines 55-60
DepOutput(base_distro, architecture, output_dir) ==
    IF output_dir # None
    THEN LocalDirectoryBuildOutput(DepResultDir(base_distro, architecture))
    ELSE NoOutput

\* lines 62-76: the buildx_build call made for the pair
DepBuildxCall(base_distro, architecture, output_dir) ==
    [dockerfile_path |-> "dependencies/Dockerfile",
     context_path |-> "dependencies",
     architecture |-> [isList |-> FALSE, archs |-> <<architecture>>],
     build_args |-> <<<<"BASE_DISTRO", base_distro>>,
                      <<"AGENT_REQUIREMENTS", "requirements">>,
                      <<"TEST_REQUIREMENTS", "dev-requirements">>>>,
     build_contexts |-> <<<<"base_image", "docker-image://" \o base_distro>>>>,
     stage |-> None,
     output |-> DepOutput(base_distro, architecture, output_dir),
     cache_name |-> Some(DepCacheName(base_distro, architecture)),
     fallback_to_remote_builder |-> FALSE,
     capture_output |-> FALSE]

NoDepCall ==
    [pair |-> <<"", "">>, output_dir |-> None, was_recorded |-> FALSE,
     built |-> FALSE, copied |-> FALSE, result |-> NoResult]

DpInit ==
    /\ _existing_built_dependencies = [d \in BaseDistros |-> {}]
    /\ dp_output_dir = {}
    /\ dp_builds = [q \in DepPairs |-> 0]
    /\ dp_builds_ok = [q \in DepPairs |-> 0]
    /\ dp_calls = 0
    /\ dp_last = NoDepCall

\* lines 22-80: one call, the build it makes exiting with code rc.  The call
\* passes no fallback_to_remote_builder, so buildx_build waits unboundedly
\* and the exit code of the local build decides it (lines 163-206).
build_agent_image_dependencies(base_distro, architecture, output_dir, rc) ==
    LET pair == <<base_distro, architecture>>
        c == DepBuildxCall(base_distro, architecture, output_dir)
        recorded == AlreadyBuilt(base_distro, architecture)
        built_ok == FallbackTimeout(c) = None /\ rc = 0
        dirs_after_build ==
            IF built_ok /\ c.output.kind = "local"
            THEN (dp_result_dirs \ {pair}) \cup {pair}
            ELSE dp_result_dirs \ {pair}
        dirs == IF recorded THEN dp_result_dirs ELSE dirs_after_build
        copy_wanted == output_dir # None /\ (recorded \/ built_ok)
        copy_ok == copy_wanted /\ pair \in dirs
    IN  /\ dp_calls < MaxDepCalls
        /\ dp_calls' = dp_calls + 1
        /\ dp_result_dirs' = dirs
        /\ dp_builds' = IF recorded THEN dp_builds
                        ELSE [dp_builds EXCEPT ![pair] = @ + 1]
        /\ dp_builds_ok' = IF (~recorded) /\ built_ok
                           THEN [dp_builds_ok EXCEPT ![pair] = @ + 1]
                           ELSE dp_builds_ok
        /\ _existing_built_dependencies' =
                IF (~recorded) /\ built_ok
                THEN [_existing_built_dependencies EXCEPT ![base_distro] = @ \cup {architecture}]
                ELSE _existing_built_dependencies
        /\ dp_output_dir' = IF copy_ok THEN dp_output_dir \cup {pair} ELSE dp_output_dir
        /\ dp_last' =
                [pair |-> pair, output_dir |-> output_dir, was_recorded |-> recorded,
                 built |-> ~recorded, copied |-> copy_ok,
                 result |-> IF (~recorded) /\ ~built_ok
                            THEN Raised("Build command has failed.")
                            ELSE IF copy_wanted /\ ~copy_ok
                                 THEN Raised("FileNotFoundError")
                                 ELSE Returned(Some(DepResultDir(base_distro, architecture)))]
        /\ UNCHANGED <<env_vars, bx_vars, tg_vars, pl_vars, dn_vars, ad_vars, ib_vars,
                        cn_vars, pv_vars>>

BuildAgentImageDependencies ==
    \E base_distro \in BaseDistros, architecture \in CpuArch,
       output_dir \in {None, Some("/out/deps")}, rc \in ExitCodes :
        build_agent_image_dependencies(base_distro, architecture, output_dir, rc)

-----------------------------------------------------------------------------
(* The prefix list: cleanup_old_prefix_list_entries and _remove_entries.   *)

\* line 23
PREFIX_LIST_ENTRY_REMOVE_THRESHOLD == 60 * 7

\* The Description of an entry, as json.loads returns it: a dict.  The dict
\* written by add_current_ip_to_prefix_list (line 352) has the keys "time"
\* and "ec2_objects_name_prefix"; a dict with the key "workflow_id" is what
\* line 514 reads.
Descriptions(t) ==
    {[time |-> t, ec2_objects_name_prefix |-> None],
     [time |-> t, ec2_objects_name_prefix |-> Some("wf1")],
     [time |-> t, workflow_id |-> Some("wf1")]}

\* timestamps around current_time - PREFIX_LIST_ENTRY_REMOVE_THRESHOLD
EntryTimes == {0, 580, 581, 900}

CidrOf(i) == CASE i = 1 -> "10.0.0.1/32" [] i = 2 -> "10.0.0.2/32" [] OTHER -> "10.0.0.3/32"

\* the listings get_managed_prefix_list_entries can return: distinct Cidrs
PrefixLists ==
    UNION {{[i \in 1..k |-> [Cidr |-> CidrOf(i), Description |-> d[i]]] :
                d \in [1..k -> UNION {Descriptions(t) : t \in EntryTimes}]} :
           k \in 0..MaxEntries}

\* lines 574-579
_parse_entry_description(entry) == entry.Description

\* lines 582-586
_parse_entry_timestamp(entry) == _parse_entry_description(entry).time

\* a comparison that keeps an entry that is exactly at the threshold
IsOldEntryStrict(entry, now) ==
    _parse_entry_timestamp(entry) < now - PREFIX_LIST_ENTRY_REMOVE_THRESHOLD

\* lines 505-506
IsOldEntry(entry, now) ==
    _parse_entry_timestamp(entry) <= now - PREFIX_LIST_ENTRY_REMOVE_THRESHOLD

\* entries_to_remove[cidr] = entry on a dict kept as its values in insertion order
DictSet(d, entry) ==
    IF \E i \in 1..Len(d) : d[i].Cidr = entry.Cidr
    THEN [i \in 1..Len(d) |-> IF d[i].Cidr = entry.Cidr THEN entry ELSE d[i]]
    ELSE Append(d, entry)

RECURSIVE OldEntriesLoop(_, _, _)
\* lines 504-507
OldEntriesLoop(d, es, now) ==
    IF es = <<>>
    THEN d
    ELSE OldEntriesLoop(IF IsOldEntry(Head(es), now) THEN DictSet(d, Head(es)) ELSE d,
                        Tail(es), now)

\* line 514 raises KeyError for a description without the key "workflow_id"
KeyErrorIn(es) ==
    \E i \in 1..Len(es) : "workflow_id" \notin DOMAIN _parse_entry_description(es[i])

RECURSIVE OwnEntriesLoop(_, _, _)
\* lines 512-515, for descriptions that all have the key
OwnEntriesLoop(d, es, prefix) ==
    IF es = <<>>
    THEN d
    ELSE LET workflow_id == _parse_entry_description(Head(es)).workflow_id
         IN  OwnEntriesLoop(IF Truthy(workflow_id) /\ workflow_id = prefix
                            THEN DictSet(d, Head(es))
                            ELSE d,
                            Tail(es), prefix)

PlIdle ==
    /\ pl_entries = <<>>
    /\ pl_version = 1
    /\ pl_concurrent = 0
    /\ current_time = 1000
    /\ pl_pc = "idle"
    /\ pl_prefix = None
    /\ entries = <<>>
    /\ entries_to_remove = <<>>
    /\ attempts = 0
    /\ version = None
    /\ pl_requests = 0
    /\ pl_last_request = [CurrentVersion |-> None, RemoveEntries |-> <<>>]
    /\ pl_result = NoResult
    /\ pl_error = None

PlFrame == UNCHANGED <<env_vars, bx_vars, tg_vars, dp_vars, dn_vars, ad_vars, ib_vars,
                        cn_vars, pv_vars>>

\* lines 486-520: up to the call of _remove_entries (line 597: attempts = 20)
cleanup_old_prefix_list_entries(prefix) ==
    /\ pl_pc = "idle"
    /\ pl_prefix' = prefix
    /\ entries' = pl_entries
    /\ IF Truthy(prefix) /\ KeyErrorIn(pl_entries)
       THEN /\ entries_to_remove' = OldEntriesLoop(<<>>, pl_entries, current_time)
            /\ pl_result' = Raised("KeyError")
            /\ pl_pc' = "done"
            /\ UNCHANGED attempts
       ELSE LET old == OldEntriesLoop(<<>>, pl_entries, current_time)
                all == IF Truthy(prefix) THEN OwnEntriesLoop(old, pl_entries, prefix) ELSE old
            IN  /\ entries_to_remove' = all
                /\ IF all = <<>>
                   THEN /\ pl_result' = Returned(None)
                        /\ pl_pc' = "done"
                        /\ UNCHANGED attempts
                   ELSE /\ attempts' = 20
                        /\ pl_pc' = "get_version"
                        /\ UNCHANGED pl_result
    /\ UNCHANGED <<pl_entries, pl_version, pl_concurrent, current_time, version,
                   pl_requests, pl_last_request, pl_error>>
    /\ PlFrame

CleanupOldPrefixListEntries ==
    \E prefix \in {None, Some(""), Some("wf1")} : cleanup_old_prefix_list_entries(prefix)

\* lines 602-604 and 372-388
GetPrefixListVersion ==
    /\ pl_pc = "get_version"
    /\ version' = Some(pl_version)
    /\ pl_pc' = "modify"
    /\ UNCHANGED <<pl_entries, pl_version, pl_concurrent, current_time, pl_prefix, entries,
                   entries_to_remove, attempts, pl_requests, pl_last_request, pl_result,
                   pl_error>>
    /\ PlFrame

\* line 608
RemoveEntriesRequest(es) == [i \in 1..Len(es) |-> [Cidr |-> es[i].Cidr]]

\* the listing without the Cidrs of a RemoveEntries request
WithoutCidrs(es, request) ==
    SelectSeq(es, LAMBDA e : ~\E i \in 1..Len(request) : request[i].Cidr = e.Cidr)

ClientErrors ==
    {"The prefix list has the incorrect version number",
     "The request cannot be completed while the prefix list is in another state",
     "RequestLimitExceeded"}

\* an except branch that retries after every ClientError
keep_trying_always(e) == TRUE

\* lines 612-617
keep_trying(e) ==
    \/ e = "The prefix list has the incorrect version number"
    \/ e = "The request cannot be completed while the prefix list is in another state"

\* lines 611-624: the except branch for ClientError e
RemoveEntriesFailed(e) ==
    /\ pl_error' = Some(e)
    /\ IF attempts = 0 \/ ~keep_trying(e)
       THEN /\ pl_result' = Raised(e)
            /\ pl_pc' = "done"
            /\ UNCHANGED attempts
       ELSE /\ attempts' = attempts - 1
            /\ pl_pc' = "get_version"
            /\ UNCHANGED pl_result

\* lines 605-610: the request is sent; the service accepts it when the
\* version is the current one, and rejects it with a ClientError otherwise
\* (or for a reason of its own)
ModifyManagedPrefixList ==
    /\ pl_pc = "modify"
    /\ pl_requests' = pl_requests + 1
    /\ pl_last_request' = [CurrentVersion |-> version,
                           RemoveEntries |-> RemoveEntriesRequest(entries_to_remove)]
    /\ \/ /\ version = Some(pl_version)
          /\ pl_entries' = WithoutCidrs(pl_entries, RemoveEntriesRequest(entries_to_remove))
          /\ pl_version' = pl_version + 1
          /\ pl_result' = Returned(None)
          /\ pl_pc' = "done"
          /\ UNCHANGED <<attempts, pl_error>>
       \/ /\ \E e \in ClientErrors :
                /\ (e = "The prefix list has the incorrect version number")
                        <=> (version # Some(pl_version))
                /\ RemoveEntriesFailed(e)
          /\ UNCHANGED <<pl_entries, pl_version>>
    /\ UNCHANGED <<pl_concurrent, current_time, pl_prefix, entries, entries_to_remove,
                   version>>
    /\ PlFrame

\* another run modifies the prefix list: its version moves on
ConcurrentModify ==
    /\ pl_pc \in {"get_version", "modify"}
    /\ pl_concurrent < MaxConcurrentMods
    /\ pl_concurrent' = pl_concurrent + 1
    /\ pl_version' = pl_version + 1
    /\ UNCHANGED <<pl_entries, current_time, pl_pc, pl_prefix, entries, entries_to_remove,
                   attempts, version, pl_requests, pl_last_request, pl_result,
                   pl_error>>
    /\ PlFrame

-----------------------------------------------------------------------------
(* destroy_node_and_cleanup and destroy_volume_with_retry.                 *)
(* A node name is the sequence of the parts that its f-string joins with   *)
(* "-" (line 120: INSTANCE_NAME_STRING, the workflow suffix, the image     *)
(* name); "s in name" is the presence of the part s.                       *)

\* line 18
INSTANCE_NAME_STRING == "automated-agent-ci-cd"

\* x in name
NameContains(name, x) == \E i \in 1..Len(name) : name[i] = x

NodeNames ==
    {<<INSTANCE_NAME_STRING, "wf1", "ubuntu2204">>,
     <<INSTANCE_NAME_STRING, "wf2", "centos7">>,
     <<"agent-ci-cd", "wf1", "ubuntu2204">>,
     <<"prod", "db">>,
     <<>>}

Nodes == [name : NodeNames, id : {"i-1"}]

NoNode == [name |-> <<>>, id |-> ""]

\* the volumes driver.list_volumes(node=node) can return
VolumeLists ==
    UNION {{[i \in 1..k |-> [id |-> CASE i = 1 -> "vol-1" [] i = 2 -> "vol-2" [] OTHER -> "vol-3",
                             instance_id |-> v[i][1],
                             size |-> v[i][2]]] :
                v \in [1..k -> {Some("i-1"), Some("i-2"), None} \X {8, 30, 100}]} :
           k \in 0..MaxVolumes}

\* line 444: max_retries=12
max_retries == 12

DnInit ==
    /\ dn_pc = "idle"
    /\ node = NoNode
    /\ volumes = <<>>
    /\ remaining_volumes = <<>>
    /\ dn_polls = 0
    /\ dn_i = 0
    /\ retry_count = 0
    /\ destroyed = FALSE
    /\ dn_api = <<>>
    /\ dn_destroyed = {}
    /\ dn_node_error = None
    /\ dn_volume_error = None
    /\ dn_result = NoResult

DnFrame == UNCHANGED <<env_vars, bx_vars, tg_vars, dp_vars, pl_vars, ad_vars, ib_vars,
                        cn_vars, pv_vars>>

\* an assertion that lets every node through
RefusesNodeNever(n) == FALSE

\* lines 396-398: the assertion fails
RefusesNode(n) == ~NameContains(n.name, INSTANCE_NAME_STRING)

\* lines 391-401
destroy_node_and_cleanup(n) ==
    /\ dn_pc = "idle"
    /\ node' = n
    /\ IF RefusesNode(n)
       THEN dn_result' = Raised("AssertionError") /\ dn_pc' = "done"
       ELSE dn_pc' = "destroy_node" /\ UNCHANGED dn_result
    /\ UNCHANGED <<volumes, remaining_volumes, dn_polls, dn_i, retry_count, destroyed,
                   dn_api, dn_destroyed, dn_node_error, dn_volume_error>>
    /\ DnFrame

DestroyNodeAndCleanup == \E n \in Nodes : destroy_node_and_cleanup(n)

NodeDestroyOutcomes ==
    {"ok", "InvalidInstanceID.NotFound: The instance ID does not exist",
     "UnauthorizedOperation"}

\* an except branch that ignores every failure of node.destroy
NodeAlreadyDeletedAny(e) == TRUE

\* line 406: "does not exist" in str(e)
NodeAlreadyDeleted(e) ==
    e = "InvalidInstanceID.NotFound: The instance ID does not exist"

\* lines 403-414
NodeDestroy ==
    /\ dn_pc = "destroy_node"
    /\ dn_api' = Append(dn_api, "node.destroy")
    /\ \E e \in NodeDestroyOutcomes :
        /\ dn_node_error' = IF e = "ok" THEN None ELSE Some(e)
        /\ IF e = "ok" \/ NodeAlreadyDeleted(e)
           THEN dn_pc' = "list_volumes" /\ UNCHANGED dn_result
           ELSE dn_pc' = "done" /\ dn_result' = Raised(e)
    /\ UNCHANGED <<node, volumes, remaining_volumes, dn_polls, dn_i, retry_count,
                   destroyed, dn_destroyed, dn_volume_error>>
    /\ DnFrame

\* lines 416-424
ListVolumes ==
    /\ dn_pc = "list_volumes"
    /\ dn_api' = Append(dn_api, "list_volumes")
    /\ \E vs \in VolumeLists :
        /\ volumes' = vs
        /\ IF Len(vs) <= 1
           THEN /\ remaining_volumes' = vs
                /\ dn_pc' = "wait_detached"
                /\ UNCHANGED dn_result
           ELSE /\ dn_result' = Raised("AssertionError")
                /\ dn_pc' = "done"
                /\ UNCHANGED remaining_volumes
    /\ UNCHANGED <<node, dn_polls, dn_i, retry_count, destroyed, dn_destroyed,
                   dn_node_error, dn_volume_error>>
    /\ DnFrame

\* lines 425-429: one test of the while condition and, when it holds, one
\* iteration: the deadline has passed, or the volumes are listed again
WaitDetached ==
    /\ dn_pc = "wait_detached"
    /\ IF remaining_volumes = <<>>
       THEN /\ dn_pc' = "volume_loop"
            /\ dn_i' = 1
            /\ UNCHANGED <<remaining_volumes, dn_polls, dn_api, dn_result>>
       ELSE \/ /\ dn_result' = Raised("TimeoutError")
               /\ dn_pc' = "done"
               /\ UNCHANGED <<remaining_volumes, dn_polls, dn_api, dn_i>>
            \/ /\ dn_api' = Append(dn_api, "list_volumes")
               /\ \/ remaining_volumes' = <<>> /\ UNCHANGED dn_polls
                  \/ /\ dn_polls < MaxPolls
                     /\ dn_polls' = dn_polls + 1
                     /\ UNCHANGED remaining_volumes
               /\ UNCHANGED <<dn_pc, dn_i, dn_result>>
    /\ UNCHANGED <<node, volumes, retry_count, destroyed, dn_destroyed,
                   dn_node_error, dn_volume_error>>
    /\ DnFrame

\* a loop that only applies the size check
SkipsVolumeBySizeOnly(volume, n) == volume.size \notin {8, 30}

\* lines 433-439: the volume is skipped
SkipsVolume(volume, n) ==
    \/ volume.instance_id # Some(n.id)
    \/ volume.size \notin {8, 30}

\* lines 431-441 and 449-450
VolumeLoop ==
    /\ dn_pc = "volume_loop"
    /\ IF dn_i > Len(volumes)
       THEN /\ dn_result' = Returned(None)
            /\ dn_pc' = "done"
            /\ UNCHANGED <<dn_i, retry_count, destroyed>>
       ELSE IF SkipsVolume(volumes[dn_i], node)
            THEN /\ dn_i' = dn_i + 1
                 /\ UNCHANGED <<dn_pc, retry_count, destroyed, dn_result>>
            ELSE /\ retry_count' = 0
                 /\ destroyed' = FALSE
                 /\ dn_pc' = "destroy_volume"
                 /\ UNCHANGED <<dn_i, dn_result>>
    /\ dn_volume_error' = None
    /\ UNCHANGED <<node, volumes, remaining_volumes, dn_polls, dn_api, dn_destroyed,
                   dn_node_error>>
    /\ DnFrame

VolumeDestroyOutcomes ==
    {"ok", "InvalidVolume.NotFound", "VolumeInUse", "UnauthorizedOperation"}

\* line 457: "InvalidVolume.NotFound" in str(e)
VolumeNotFound(e) == e = "InvalidVolume.NotFound"

\* an except branch that retries after every error
VolumeInUseAny(e) == TRUE

\* line 463: "VolumeInUse" in str(e)
VolumeInUse(e) == e = "VolumeInUse"

\* lines 452-482: one test of the while condition and, when it holds, one
\* driver.destroy_volume call
DestroyVolumeWithRetry ==
    /\ dn_pc = "destroy_volume"
    /\ IF (~destroyed) /\ retry_count < max_retries
       THEN /\ dn_api' = Append(dn_api, "destroy_volume")
            /\ \E e \in VolumeDestroyOutcomes :
                /\ dn_volume_error' = IF e = "ok" THEN None ELSE Some(e)
                /\ CASE e = "ok" ->
                        /\ destroyed' = TRUE
                        /\ dn_destroyed' = dn_destroyed \cup {volumes[dn_i].id}
                        /\ UNCHANGED <<retry_count, dn_pc, dn_i, dn_result>>
                     [] e # "ok" /\ VolumeNotFound(e) ->
                        /\ destroyed' = TRUE
                        /\ UNCHANGED <<dn_destroyed, retry_count, dn_pc, dn_i, dn_result>>
                     [] e # "ok" /\ ~VolumeNotFound(e) /\ VolumeInUse(e) ->
                        /\ retry_count' = retry_count + 1
                        /\ UNCHANGED <<destroyed, dn_destroyed, dn_pc, dn_i, dn_result>>
                     [] OTHER ->
                        /\ dn_result' = Raised(e)
                        /\ dn_pc' = "done"
                        /\ UNCHANGED <<destroyed, dn_destroyed, retry_count, dn_i>>
       ELSE /\ dn_i' = dn_i + 1
            /\ dn_pc' = "volume_loop"
            /\ UNCHANGED <<dn_api, destroyed, dn_destroyed, retry_count, dn_result,
                           dn_volume_error>>
    /\ UNCHANGED <<node, volumes, remaining_volumes, dn_polls, dn_node_error>>
    /\ DnFrame

-----------------------------------------------------------------------------
(* add_current_ip_to_prefix_list, and the other runs that share the list.  *)

\* line 20
MAX_PREFIX_LIST_UPDATE_ATTEMPTS == 20

CidrsOf(es) == {es[i].Cidr : i \in 1..Len(es)}

\* line 332: the public IP the service reports for this runner
PublicIp == "203.0.113.7"

\* line 334
NewCidr(public_ip) == public_ip \o "/32"

\* line 352: time.time() when the entry is written
AddTimes == {100, 900}

\* lines 349-354
AddEntriesRequest(cidr, t, prefix) ==
    <<[Cidr |-> cidr,
       Description |-> [time |-> t, ec2_objects_name_prefix |-> prefix]]>>

\* the entries other runs have written with lines 349-354
OtherOwnersDescriptions ==
    {[time |-> t, ec2_objects_name_prefix |-> p] : t \in {0, 900}, p \in {None, Some("wf2")}}

OtherOwnersLists ==
    UNION {{[i \in 1..k |-> [Cidr |-> CidrOf(i), Description |-> d[i]]] :
                d \in [1..k -> OtherOwnersDescriptions]} :
           k \in 0..MaxOtherEntries}

\* the Cidr of the k-th other run that adds its address during the call
OtherCidr(k) == IF k = 1 THEN "198.51.100.1/32" ELSE "198.51.100.2/32"

AdIdle ==
    /\ ad_pc = "idle"
    /\ ad_prefix = None
    /\ ip_attempts = 0
    /\ new_cidr = None
    /\ ad_attempts = 0
    /\ ad_version = None
    /\ ad_reads = 0
    /\ ad_requests = 0
    /\ ad_last_request = [CurrentVersion |-> None, AddEntries |-> <<>>]
    /\ ad_accepted = 0
    /\ ad_start = {}
    /\ others_added = {}
    /\ others_removed = {}
    /\ ad_result = NoResult

AdFrame == UNCHANGED <<env_vars, bx_vars, tg_vars, dp_vars, dn_vars, ib_vars,
                        cn_vars, pv_vars>>

\* what a step of the add call leaves alone in the cleanup's variables
AdPlFrame ==
    UNCHANGED <<pl_concurrent, current_time, pl_pc, pl_prefix, entries, entries_to_remove,
                attempts, version, pl_requests, pl_last_request, pl_result,
                   pl_error>>

\* lines 300-320: the call, up to the public-IP loop
add_current_ip_to_prefix_list(prefix) ==
    /\ ad_pc = "idle"
    /\ pl_pc = "idle"
    /\ ad_pc' = "get_ip"
    /\ ad_prefix' = prefix
    /\ ip_attempts' = 10
    /\ ad_start' = CidrsOf(pl_entries)
    /\ UNCHANGED <<new_cidr, ad_attempts, ad_version, ad_reads, ad_requests,
                   ad_last_request, ad_accepted, others_added, others_removed, ad_result>>
    /\ UNCHANGED <<pl_entries, pl_version>>
    /\ AdPlFrame
    /\ AdFrame

AddCurrentIpToPrefixList ==
    \E prefix \in {None, Some("wf1")} : add_current_ip_to_prefix_list(prefix)

\* what one pass of lines 322-330 can meet
IpLookupOutcomes == {"ok", "HTTPError", "ConnectionError"}

\* lines 321-336: one pass of the public-IP loop; only HTTPError is caught
GetPublicIp ==
    /\ ad_pc = "get_ip"
    /\ \E o \in IpLookupOutcomes :
          CASE o = "ok" ->
                 /\ new_cidr' = Some(NewCidr(PublicIp))
                 /\ ad_attempts' = 0
                 /\ ad_pc' = "get_version"
                 /\ UNCHANGED <<ip_attempts, ad_result>>
            [] o = "HTTPError" ->
                 /\ IF ip_attempts = 0
                    THEN /\ ad_result' = Raised("HTTPError")
                         /\ ad_pc' = "done"
                         /\ UNCHANGED ip_attempts
                    ELSE /\ ip_attempts' = ip_attempts - 1
                         /\ UNCHANGED <<ad_pc, ad_result>>
                 /\ UNCHANGED <<new_cidr, ad_attempts>>
            [] OTHER ->
                 /\ ad_result' = Raised(o)
                 /\ ad_pc' = "done"
                 /\ UNCHANGED <<ip_attempts, new_cidr, ad_attempts>>
    /\ UNCHANGED <<ad_prefix, ad_version, ad_reads, ad_requests, ad_last_request,
                   ad_accepted, ad_start, others_added, others_removed>>
    /\ UNCHANGED <<pl_entries, pl_version>>
    /\ AdPlFrame
    /\ AdFrame

\* lines 341-343 and 372-388
AddGetPrefixListVersion ==
    /\ ad_pc = "get_version"
    /\ ad_version' = Some(pl_version)
    /\ ad_reads' = ad_reads + 1
    /\ ad_pc' = "modify"
    /\ UNCHANGED <<ad_prefix, ip_attempts, new_cidr, ad_attempts, ad_requests,
                   ad_last_request, ad_accepted, ad_start, others_added, others_removed,
                   ad_result>>
    /\ UNCHANGED <<pl_entries, pl_version>>
    /\ AdPlFrame
    /\ AdFrame

\* a loop that goes back to the request without reading the version again
AddRetryPcNoRead == "modify"

\* line 339: where the while loop resumes after the except branch
AddRetryPc == "get_version"

\* line 359
AddGivesUp(n) == n >= MAX_PREFIX_LIST_UPDATE_ATTEMPTS

\* lines 358-367: the except branch for ClientError e
AddEntryFailed(e) ==
    IF AddGivesUp(ad_attempts)
    THEN /\ ad_result' = Raised(e)
         /\ ad_pc' = "done"
         /\ UNCHANGED ad_attempts
    ELSE /\ ad_attempts' = ad_attempts + 1
         /\ ad_pc' = AddRetryPc
         /\ UNCHANGED ad_result

\* lines 345-357 and 369: the request is sent; the service accepts it when
\* the version is the current one and rejects it with a ClientError otherwise
\* (or for a reason of its own)
AddModifyManagedPrefixList ==
    /\ ad_pc = "modify"
    /\ ad_requests' = ad_requests + 1
    /\ \E t \in AddTimes :
          LET request == AddEntriesRequest(TheValue(new_cidr), t, ad_prefix)
          IN  /\ ad_last_request' = [CurrentVersion |-> ad_version, AddEntries |-> request]
              /\ \/ /\ ad_version = Some(pl_version)
                    /\ pl_entries' = pl_entries \o request
                    /\ pl_version' = pl_version + 1
                    /\ ad_accepted' = ad_accepted + 1
                    /\ ad_result' = Returned(new_cidr)
                    /\ ad_pc' = "done"
                    /\ UNCHANGED ad_attempts
                 \/ /\ \E e \in ClientErrors :
                          /\ (e = "The prefix list has the incorrect version number")
                                  <=> (ad_version # Some(pl_version))
                          /\ AddEntryFailed(e)
                    /\ UNCHANGED <<pl_entries, pl_version, ad_accepted>>
    /\ UNCHANGED <<ad_prefix, ip_attempts, new_cidr, ad_version, ad_reads, ad_start,
                   others_added, others_removed>>
    /\ AdPlFrame
    /\ AdFrame

\* another run's accepted update while the call is in its loop: it adds its
\* own address, or its cleanup removes the first entry of the list
ConcurrentUpdate ==
    /\ ad_pc \in {"get_version", "modify"}
    /\ pl_concurrent < MaxConcurrentMods
    /\ pl_concurrent' = pl_concurrent + 1
    /\ pl_version' = pl_version + 1
    /\ \/ /\ pl_entries' = pl_entries \o
                    AddEntriesRequest(OtherCidr(pl_concurrent + 1), 900, Some("wf2"))
          /\ others_added' = others_added \cup {OtherCidr(pl_concurrent + 1)}
          /\ UNCHANGED others_removed
       \/ /\ pl_entries # <<>>
          /\ pl_entries' = Tail(pl_entries)
          /\ others_removed' = others_removed \cup {Head(pl_entries).Cidr}
          /\ others_added' = others_added \ {Head(pl_entries).Cidr}
    /\ UNCHANGED <<ad_pc, ad_prefix, ip_attempts, new_cidr, ad_attempts, ad_version,
                   ad_reads, ad_requests, ad_last_request, ad_accepted, ad_start,
                   ad_result>>
    /\ UNCHANGED <<current_time, pl_pc, pl_prefix, entries, entries_to_remove, attempts,
                   version, pl_requests, pl_last_request, pl_result,
                   pl_error>>
    /\ AdFrame

\* line 369: the call has returned new_cidr and its frame is gone
AddReturn ==
    /\ ad_pc = "done"
    /\ ad_result.kind = "returned"
    /\ ad_pc' = "returned"
    /\ ip_attempts' = 0
    /\ ad_attempts' = 0
    /\ ad_version' = None
    /\ ad_reads' = 0
    /\ ad_requests' = 0
    /\ ad_last_request' = [CurrentVersion |-> None, AddEntries |-> <<>>]
    /\ ad_accepted' = 0
    /\ UNCHANGED <<ad_prefix, new_cidr, ad_start, others_added, others_removed, ad_result>>
    /\ UNCHANGED <<pl_entries, pl_version>>
    /\ AdPlFrame
    /\ AdFrame

\* a cleanup_old_prefix_list_entries call made after the add call returned
CleanupAfterAdd ==
    /\ ad_pc = "returned"
    /\ CleanupOldPrefixListEntries

-----------------------------------------------------------------------------
(* ContainerisedAgentBuilder: build_requirement_libs,                      *)
(* _build_final_image_base_oci_layout, _build and publish.  Each           *)
(* buildx_build call of the builder runs the buildx_build steps above.     *)

\* lines 15-19
SUPPORTED_ARCHITECTURES == <<"x86_64", "aarch64", "armv7">>

\* lines 281-287
_arch_to_docker_build_target_folder(arch) ==
    CASE arch = "x86_64" -> "linux_amd64_"
      [] arch = "aarch64" -> "linux_arm64_"
      [] arch = "armv7" -> "linux_arm_v7"

\* the builder classes of the model: two of ALL_CONTAINERISED_AGENT_BUILDERS
BuilderClasses ==
    {cls \in ALL_CONTAINERISED_AGENT_BUILDERS : cls.NAME \in {"k8s-ubuntu", "k8s-alpine"}}

BuilderNames == {cls.NAME : cls \in BuilderClasses}

\* the builder instances of one process
BuilderInstances ==
    {[cls |-> cls, id |-> id] : cls \in BuilderClasses, id \in 1..MaxInstances}

NoInstance == [cls |-> NoBuilder, id |-> 0]

\* Builder.work_dir
work_dir(self) == "/work/" \o self.cls.NAME

\* Builder.result_dir and lines 51-53
result_oci_layout_tarball_path(self) ==
    "/result/" \o self.cls.NAME \o "/" \o self.cls.NAME \o ".tar"

\* lines 123-124
requirement_libs_dir(self) == work_dir(self) \o "/requirement_libs"

\* lines 130-131
arch_dir(self, arch) ==
    requirement_libs_dir(self) \o "/" \o _arch_to_docker_build_target_folder(arch)

\* lines 100-101
result_image_oci_layout(self) == work_dir(self) \o "/final_image_base"

\* line 176
agent_filesystem_dir(self) == work_dir(self) \o "/agent_filesystem"

\* the files the builders of the model write
BuilderPaths ==
    UNION {{arch_dir(self, SUPPORTED_ARCHITECTURES[i]) : i \in 1..3}
              \cup {result_image_oci_layout(self), result_image_oci_layout(self) \o ".tar",
                    agent_filesystem_dir(self), result_oci_layout_tarball_path(self)} :
           self \in BuilderInstances}

\* lines 60-92: the buildx_build call of _build_dependencies
BuildDependenciesCall(cls, stage, architectures, output, cache_name, fallback) ==
    [dockerfile_path |-> "container_images/dependencies.Dockerfile",
     context_path |-> "container_images",
     architecture |-> architectures,
     build_args |-> <<<<"BASE_DISTRO", cls.BASE_DISTRO>>,
                      <<"AGENT_REQUIREMENTS", "agent_requirements">>,
                      <<"TEST_REQUIREMENTS", "requirements_dev_coverage">>>>,
     build_contexts |-> <<>>,
     stage |-> Some(stage),
     output |-> output,
     cache_name |-> cache_name,
     fallback_to_remote_builder |-> fallback,
     capture_output |-> FALSE]

\* a base-image call that names a cache and asks for the fallback
FinalImageBaseCallCached(self) ==
    BuildDependenciesCall(self.cls, "final_image_base",
                          [isList |-> FALSE, archs |-> <<"x86_64">>],
                          OCITarballBuildOutput(result_image_oci_layout(self), TRUE),
                          Some("final_image_base"), TRUE)

\* lines 106-112
FinalImageBaseCall(self) ==
    BuildDependenciesCall(self.cls, "final_image_base",
                          [isList |-> TRUE, archs |-> SUPPORTED_ARCHITECTURES],
                          OCITarballBuildOutput(result_image_oci_layout(self), TRUE),
                          None, FALSE)

\* line 133
RequirementLibsCacheName(self, arch) ==
    "container-image-build-" \o self.cls.BASE_DISTRO \o "-requirement_libs_" \o arch

\* lines 135-143
RequirementLibsCall(self, arch) ==
    BuildDependenciesCall(self.cls, "requirement_libs",
                          [isList |-> FALSE, archs |-> <<arch>>],
                          LocalDirectoryBuildOutput(arch_dir(self, arch)),
                          Some(RequirementLibsCacheName(self, arch)), TRUE)

\* build contexts that leave out the requirement libs
FinalBuildContextsNoLibs(self) ==
    <<<<"base_image", "oci-layout:///" \o result_image_oci_layout(self)>>,
      <<"agent_filesystem", agent_filesystem_dir(self)>>>>

\* lines 211-215
FinalBuildContexts(self) ==
    <<<<"base_image", "oci-layout:///" \o result_image_oci_layout(self)>>,
      <<"requirement_libs", requirement_libs_dir(self)>>,
      <<"agent_filesystem", agent_filesystem_dir(self)>>>>

\* lines 203-220
FinalBuildCall(self) ==
    [dockerfile_path |-> "container_images/Dockerfile",
     context_path |-> "container_images",
     architecture |-> [isList |-> TRUE, archs |-> SUPPORTED_ARCHITECTURES],
     build_args |-> <<<<"BASE_DISTRO", self.cls.BASE_DISTRO>>,
                      <<"IMAGE_TYPE", self.cls.IMAGE_TYPE>>>>,
     build_contexts |-> FinalBuildContexts(self),
     stage |-> None,
     output |-> OCITarballBuildOutput(result_oci_layout_tarball_path(self), FALSE),
     cache_name |-> None,
     fallback_to_remote_builder |-> FALSE,
     capture_output |-> FALSE]

\* str() of an Optional[str] inside an f-string
Str(o) == IF o = None THEN "None" ELSE TheValue(o)

\* a command line that never carries credentials
PublishCmdArgsNoCreds(layer, username, password) ==
    <<"docker", "run", "-i", "--rm", "--name=agent_image_publish_skopeo", "--net=host",
      "-v=" \o layer \o ":/tmp/oci_layout.tar", "quay.io/skopeo/stable:latest",
      "copy", "--all", "--dest-no-creds", "--dest-tls-verify=false">>

\* lines 237-258
PublishCmdArgs(layer, username, password) ==
    <<"docker", "run", "-i", "--rm", "--name=agent_image_publish_skopeo", "--net=host",
      "-v=" \o layer \o ":/tmp/oci_layout.tar", "quay.io/skopeo/stable:latest",
      "copy", "--all">>
        \o (IF (~Truthy(username)) /\ (~Truthy(password))
            THEN <<"--dest-no-creds", "--dest-tls-verify=false">>
            ELSE <<"--dest-creds=" \o Str(username) \o ":" \o Str(password)>>)

\* lines 267-271
CopyCmd(args, tag) == args \o <<"oci-archive:/tmp/oci_layout.tar", "docker://" \o tag>>

PublishTag(i) ==
    "localhost:5000/user/scalyr-k8s-agent:" \o (CASE i = 1 -> "v1" [] i = 2 -> "v2" [] OTHER -> "v3")

\* the tag lists given to publish
PublishTagArgs == {[i \in 1..k |-> PublishTag(i)] : k \in 0..MaxPublishTags}

UsernameArgs == {None, Some("user")}

PasswordArgs == {None, Some(""), Some("secret")}

ExistingOciLayoutArgs == {None, Some("/prebuilt/image.tar")}

LogEntry(e, stage, cmd) == [e |-> e, stage |-> stage, cmd |-> cmd]

IbInit ==
    /\ _requirements_libs_already_built = [n \in BuilderNames |-> FALSE]
    /\ _final_image_base_already_built = [n \in BuilderNames |-> FALSE]
    /\ ib_pc = "idle"
    /\ ib_op = ""
    /\ ib_self = NoInstance
    /\ ib_arch = 0
    /\ pub_tags = <<>>
    /\ existing_oci_layout_dir = None
    /\ registry_username = None
    /\ registry_password = None
    /\ oci_layer = None
    /\ publish_cmd_args = <<>>
    /\ ib_tag = 0
    /\ ib_log = <<>>
    /\ ib_ops = 0
    /\ stage_completions = [n \in BuilderNames |->
                               [s \in {"requirement_libs", "final_image_base"} |-> 0]]
    /\ ib_result = NoResult

IbFrame == UNCHANGED <<env_vars, tg_vars, dp_vars, pl_vars, dn_vars, ad_vars,
                        cn_vars, pv_vars>>

ib_flags ==
    <<_requirements_libs_already_built, _final_image_base_already_built, stage_completions>>

ib_args ==
    <<ib_op, ib_self, pub_tags, existing_oci_layout_dir, registry_username,
      registry_password, ib_ops>>

ib_publish_locals == <<oci_layer, publish_cmd_args, ib_tag>>

\* build.py lines 98-188, for the call c of a builder
StartBuildx(c) ==
    /\ bx_pc = "idle"
    /\ bx_call' = c
    /\ cmd_args' = BuildCmdArgs(c)
    /\ fallback_timeout' = FallbackTimeout(c)
    /\ retry' = FALSE
    /\ process' = "running"
    /\ returncode' = None
    /\ stdout' = <<>>
    /\ output_buffer' = <<>>
    /\ stderr_buffer' = <<>>
    /\ remote_runs' = <<>>
    /\ remote_returncode' = None
    /\ builder_lookups' = <<>>
    /\ process_tree' = <<>>
    /\ terminations' = <<>>
    /\ extractions' = 0
    /\ bx_result' = NoResult
    /\ bx_pc' = "communicate"
    /\ UNCHANGED fs

\* buildx_build has returned or raised: its frame is gone, the files stay
ReleaseBuildx ==
    /\ bx_pc = "done"
    /\ bx_pc' = "idle"
    /\ bx_call' = NoCall
    /\ cmd_args' = <<>>
    /\ fallback_timeout' = None
    /\ retry' = FALSE
    /\ process' = "none"
    /\ returncode' = None
    /\ stdout' = <<>>
    /\ output_buffer' = <<>>
    /\ stderr_buffer' = <<>>
    /\ remote_runs' = <<>>
    /\ remote_returncode' = None
    /\ builder_lookups' = <<>>
    /\ process_tree' = <<>>
    /\ terminations' = <<>>
    /\ extractions' = 0
    /\ bx_result' = NoResult
    /\ UNCHANGED fs

\* the start of a build or publish call on the instance self
IbCall(op, self, tgs, existing, username, password) ==
    /\ ib_pc \in {"idle", "done"}
    /\ ib_ops < MaxBuilderOps
    /\ ib_ops' = ib_ops + 1
    /\ ib_op' = op
    /\ ib_self' = self
    /\ pub_tags' = tgs
    /\ existing_oci_layout_dir' = existing
    /\ registry_username' = username
    /\ registry_password' = password
    /\ publish_cmd_args' = <<>>
    /\ ib_tag' = 0
    /\ ib_arch' = 0
    /\ ib_log' = <<>>
    /\ ib_result' = NoResult
    /\ UNCHANGED ib_flags
    /\ UNCHANGED bx_vars
    /\ IbFrame

\* Builder.build: runs _build (lines 195-197)
build(self) ==
    /\ IbCall("build", self, <<>>, None, None, None)
    /\ oci_layer' = None
    /\ ib_pc' = "build_requirement_libs"

Build == \E self \in BuilderInstances : build(self)

\* a publish that builds whatever it is given
NeedsBuildAlways(existing) == TRUE

\* line 229: "if existing_oci_layout_dir" fails
NeedsBuild(existing) == existing = None

\* lines 222-233
publish(self, tgs, existing, username, password) ==
    /\ IbCall("publish", self, tgs, existing, username, password)
    /\ IF ~NeedsBuild(existing)
       THEN /\ oci_layer' = existing
            /\ ib_pc' = "delete_container"
       ELSE /\ oci_layer' = None
            /\ ib_pc' = "build_requirement_libs"

Publish ==
    \E self \in BuilderInstances, tgs \in PublishTagArgs, existing \in ExistingOciLayoutArgs,
       username \in UsernameArgs, password \in PasswordArgs :
        publish(self, tgs, existing, username, password)

\* a flag test that never finds the stage built
RequirementLibsAlreadyBuiltNever(self) == FALSE

\* line 126
RequirementLibsAlreadyBuilt(self) == _requirements_libs_already_built[self.cls.NAME]

\* line 103
FinalImageBaseAlreadyBuilt(self) == _final_image_base_already_built[self.cls.NAME]

\* lines 117-127: build_requirement_libs up to its loop
build_requirement_libs ==
    /\ ib_pc = "build_requirement_libs"
    /\ IF RequirementLibsAlreadyBuilt(ib_self)
       THEN /\ ib_pc' = "final_image_base"
            /\ UNCHANGED ib_arch
       ELSE /\ ib_pc' = "requirement_libs_loop"
            /\ ib_arch' = 1
    /\ UNCHANGED <<ib_flags, ib_args, ib_publish_locals, ib_log, ib_result>>
    /\ UNCHANGED bx_vars
    /\ IbFrame

\* a loop that ends after its first architecture
RequirementLibsLoopEndsEarly(i) == i > 1

\* line 129: the for loop has gone through SUPPORTED_ARCHITECTURES
RequirementLibsLoopEnds(i) == i > Len(SUPPORTED_ARCHITECTURES)

\* lines 129-146: one pass of the loop over SUPPORTED_ARCHITECTURES, or its end
RequirementLibsLoop ==
    /\ ib_pc = "requirement_libs_loop"
    /\ IF ~RequirementLibsLoopEnds(ib_arch)
       THEN LET c == RequirementLibsCall(ib_self, SUPPORTED_ARCHITECTURES[ib_arch])
            IN  /\ StartBuildx(c)
                /\ ib_log' = Append(ib_log, LogEntry("buildx_build", "requirement_libs",
                                                     BuildCmdArgs(c)))
                /\ ib_pc' = "requirement_libs_wait"
                /\ UNCHANGED ib_flags
       ELSE /\ _requirements_libs_already_built' =
                    [_requirements_libs_already_built EXCEPT ![ib_self.cls.NAME] = TRUE]
            /\ stage_completions' =
                    [stage_completions EXCEPT ![ib_self.cls.NAME]["requirement_libs"] = @ + 1]
            /\ ib_log' = Append(ib_log, LogEntry("stage_done", "requirement_libs", <<>>))
            /\ ib_pc' = "final_image_base"
            /\ UNCHANGED _final_image_base_already_built
            /\ UNCHANGED bx_vars
    /\ UNCHANGED <<ib_args, ib_arch, ib_publish_locals, ib_result>>
    /\ IbFrame

\* a buildx_build call of the builder raised: the exception ends the call
BuildxRaised ==
    /\ ib_result' = Raised(bx_result.exc)
    /\ ib_pc' = "done"

\* lines 135-143: buildx_build is back for one architecture
RequirementLibsBuilt ==
    /\ ib_pc = "requirement_libs_wait"
    /\ ReleaseBuildx
    /\ IF bx_result.kind = "raised"
       THEN BuildxRaised /\ UNCHANGED ib_arch
       ELSE /\ ib_arch' = ib_arch + 1
            /\ ib_pc' = "requirement_libs_loop"
            /\ UNCHANGED ib_result
    /\ UNCHANGED <<ib_flags, ib_args, ib_publish_locals, ib_log>>
    /\ IbFrame

\* lines 94-112
_build_final_image_base_oci_layout ==
    /\ ib_pc = "final_image_base"
    /\ IF FinalImageBaseAlreadyBuilt(ib_self)
       THEN /\ ib_pc' = "create_agent_filesystem"
            /\ UNCHANGED ib_log
            /\ UNCHANGED bx_vars
       ELSE LET c == FinalImageBaseCall(ib_self)
            IN  /\ StartBuildx(c)
                /\ ib_log' = Append(ib_log, LogEntry("buildx_build", "final_image_base",
                                                     BuildCmdArgs(c)))
                /\ ib_pc' = "final_image_base_wait"
    /\ UNCHANGED <<ib_flags, ib_args, ib_arch, ib_publish_locals, ib_result>>
    /\ IbFrame

\* lines 106-115: buildx_build is back for the base image
FinalImageBaseBuilt ==
    /\ ib_pc = "final_image_base_wait"
    /\ ReleaseBuildx
    /\ IF bx_result.kind = "raised"
       THEN BuildxRaised /\ UNCHANGED <<ib_flags, ib_log>>
       ELSE /\ _final_image_base_already_built' =
                    [_final_image_base_already_built EXCEPT ![ib_self.cls.NAME] = TRUE]
            /\ stage_completions' =
                    [stage_completions EXCEPT ![ib_self.cls.NAME]["final_image_base"] = @ + 1]
            /\ ib_log' = Append(ib_log, LogEntry("stage_done", "final_image_base", <<>>))
            /\ ib_pc' = "create_agent_filesystem"
            /\ UNCHANGED <<_requirements_libs_already_built, ib_result>>
    /\ UNCHANGED <<ib_args, ib_arch, ib_publish_locals>>
    /\ IbFrame

\* lines 171-193 and 201: the agent files are assembled (ok) or the helper raises
create_agent_filesystem(ok) ==
    /\ ib_pc = "create_agent_filesystem"
    /\ IF ok
       THEN /\ fs' = [fs EXCEPT ![agent_filesystem_dir(ib_self)] = "tree"]
            /\ ib_log' = Append(ib_log, LogEntry("stage_done", "agent_filesystem", <<>>))
            /\ ib_pc' = "final_build"
            /\ UNCHANGED ib_result
       ELSE /\ ib_result' = Raised("OSError")
            /\ ib_pc' = "done"
            /\ UNCHANGED <<fs, ib_log>>
    /\ UNCHANGED <<ib_flags, ib_args, ib_arch, ib_publish_locals>>
    /\ UNCHANGED <<bx_pc, bx_call, cmd_args, fallback_timeout, retry, process, returncode,
                   stdout, output_buffer, stderr_buffer, remote_runs, remote_returncode,
                   builder_lookups, process_tree,
                   terminations, extractions, bx_result>>
    /\ IbFrame

\* lines 203-220
FinalBuild ==
    /\ ib_pc = "final_build"
    /\ LET c == FinalBuildCall(ib_self)
       IN  /\ StartBuildx(c)
           /\ ib_log' = Append(ib_log, LogEntry("buildx_build", "final_image", BuildCmdArgs(c)))
    /\ ib_pc' = "final_build_wait"
    /\ UNCHANGED <<ib_flags, ib_args, ib_arch, ib_publish_locals, ib_result>>
    /\ IbFrame

\* lines 203-220 and 232-233: buildx_build is back for the final image
FinalImageBuilt ==
    /\ ib_pc = "final_build_wait"
    /\ ReleaseBuildx
    /\ IF bx_result.kind = "raised"
       THEN BuildxRaised /\ UNCHANGED <<ib_log, oci_layer>>
       ELSE /\ ib_log' = Append(ib_log, LogEntry("stage_done", "final_image", <<>>))
            /\ IF ib_op = "build"
               THEN /\ ib_result' = Returned(None)
                    /\ ib_pc' = "done"
                    /\ UNCHANGED oci_layer
               ELSE /\ oci_layer' = Some(result_oci_layout_tarball_path(ib_self))
                    /\ ib_pc' = "delete_container"
                    /\ UNCHANGED ib_result
    /\ UNCHANGED <<ib_flags, ib_args, ib_arch, publish_cmd_args, ib_tag>>
    /\ IbFrame

\* lines 235-262: cmd_args is assembled and the container is force-removed
DeleteContainerBefore ==
    /\ ib_pc = "delete_container"
    /\ publish_cmd_args' =
            PublishCmdArgs(TheValue(oci_layer), registry_username, registry_password)
    /\ ib_log' = Append(ib_log, LogEntry("delete_container", "", <<>>))
    /\ ib_tag' = 1
    /\ ib_pc' = "copy"
    /\ UNCHANGED <<ib_flags, ib_args, ib_arch, oci_layer, ib_result>>
    /\ UNCHANGED bx_vars
    /\ IbFrame

\* lines 264-274: subprocess.run(..., check=True) for the next tag
Copy(rc) ==
    /\ ib_pc = "copy"
    /\ ib_tag <= Len(pub_tags)
    /\ ib_log' = Append(ib_log, LogEntry("copy", "", CopyCmd(publish_cmd_args, pub_tags[ib_tag])))
    /\ IF rc # 0
       THEN /\ ib_result' = Raised("CalledProcessError")
            /\ ib_pc' = "done"
            /\ UNCHANGED ib_tag
       ELSE /\ ib_tag' = ib_tag + 1
            /\ UNCHANGED <<ib_pc, ib_result>>
    /\ UNCHANGED <<ib_flags, ib_args, ib_arch, oci_layer, publish_cmd_args>>
    /\ UNCHANGED bx_vars
    /\ IbFrame

\* lines 276-278: the loop is over, the container is force-removed again
DeleteContainerAfter ==
    /\ ib_pc = "copy"
    /\ ib_tag > Len(pub_tags)
    /\ ib_log' = Append(ib_log, LogEntry("delete_container", "", <<>>))
    /\ ib_result' = Returned(None)
    /\ ib_pc' = "done"
    /\ UNCHANGED <<ib_flags, ib_args, ib_arch, ib_publish_locals>>
    /\ UNCHANGED bx_vars
    /\ IbFrame

-----------------------------------------------------------------------------
(* cleanup_old_ec2_test_instance.  Times are minutes.                      *)

\* line 26
DELETE_OLD_NODES_TIMEDELTA == 4 * 60

\* line 27: datetime.utcnow() when the module is imported
ImportTime == 1000

\* line 27
DELETE_OLD_NODES_THRESHOLD_DT == ImportTime - DELETE_OLD_NODES_TIMEDELTA

\* node.extra.get("launch_time", None): absent, old, at the threshold, recent
LaunchTimes == {None, Some(700), Some(760), Some(900)}

NodeId(i) == CASE i = 1 -> "i-1" [] i = 2 -> "i-2" [] OTHER -> "i-3"

\* what libcloud_ec2_driver.list_nodes() can return (line 534)
NodeListings ==
    UNION {{[i \in 1..k |-> [name |-> v[i][1], id |-> NodeId(i), launch_time |-> v[i][2]]] :
                v \in [1..k -> (NodeNames \ {<<>>}) \X LaunchTimes]} :
           k \in 0..MaxNodes}

\* line 545: "ec2_objects_name_prefix in node.name" raises TypeError when the
\* left operand is None; it is evaluated for the nodes that passed line 541
PrefixTestRaises(listing, prefix) ==
    /\ prefix = None
    /\ \E i \in 1..Len(listing) : NameContains(listing[i].name, INSTANCE_NAME_STRING)

\* line 545
IsOwnNode(n, prefix) == NameContains(n.name, TheValue(prefix))

\* lines 549-556; a launch time that is present is a non-empty ISO date
IsOldNode(n) ==
    /\ n.launch_time # None
    /\ ~(TheValue(n.launch_time) >= DELETE_OLD_NODES_THRESHOLD_DT)

\* lines 540-560: the node is appended to nodes_to_delete
SelectsNode(n, prefix) ==
    /\ NameContains(n.name, INSTANCE_NAME_STRING)
    /\ (IsOwnNode(n, prefix) \/ IsOldNode(n))

\* the names bound in the module (lines 1-27 and its functions) and in the
\* body of cleanup_old_ec2_test_instance (lines 528-560)
CleanupScopeNames ==
    {"logger", "INSTANCE_NAME_STRING", "MAX_PREFIX_LIST_UPDATE_ATTEMPTS",
     "PREFIX_LIST_ENTRY_REMOVE_THRESHOLD", "DELETE_OLD_NODES_TIMEDELTA",
     "DELETE_OLD_NODES_THRESHOLD_DT", "destroy_node_and_cleanup",
     "libcloud_ec2_driver", "ec2_objects_name_prefix", "parse_date", "nodes",
     "nodes_to_delete", "node", "launch_time", "launch_time_dt"}

\* evaluating a name that is bound nowhere raises NameError
NameError(name) == name \notin CleanupScopeNames

CnIdle ==
    /\ cn_pc = "idle"
    /\ cn_prefix = None
    /\ nodes = <<>>
    /\ nodes_to_delete = <<>>
    /\ cn_i = 0
    /\ cn_destroy_calls = <<>>
    /\ cn_result = NoResult

CnFrame == UNCHANGED <<env_vars, bx_vars, tg_vars, dp_vars, pl_vars, dn_vars, ad_vars,
                       ib_vars, pv_vars>>

\* lines 528-560: the listing and the selection loop
cleanup_old_ec2_test_instance(prefix, listing) ==
    /\ cn_pc = "idle"
    /\ cn_prefix' = prefix
    /\ nodes' = listing
    /\ IF PrefixTestRaises(listing, prefix)
       THEN /\ cn_result' = Raised("TypeError")
            /\ cn_pc' = "done"
            /\ UNCHANGED <<nodes_to_delete, cn_i>>
       ELSE /\ nodes_to_delete' = SelectSeq(listing, LAMBDA n : SelectsNode(n, prefix))
            /\ cn_i' = 1
            /\ cn_pc' = "delete_loop"
            /\ UNCHANGED cn_result
    /\ UNCHANGED cn_destroy_calls
    /\ CnFrame

CleanupOldEc2TestInstance ==
    \E prefix \in {None, Some("wf1")} :
        \E listing \in NodeListings : cleanup_old_ec2_test_instance(prefix, listing)

\* lines 564-570: one test of the for loop and, for a node, the call
\* destroy_node_and_cleanup(driver=driver, node=node), whose argument
\* "driver" is evaluated first
DeleteNodes ==
    /\ cn_pc = "delete_loop"
    /\ IF cn_i > Len(nodes_to_delete)
       THEN /\ cn_result' = Returned(None)
            /\ cn_pc' = "done"
            /\ UNCHANGED <<cn_i, cn_destroy_calls>>
       ELSE IF NameError("driver")
            THEN /\ cn_result' = Raised("NameError")
                 /\ cn_pc' = "done"
                 /\ UNCHANGED <<cn_i, cn_destroy_calls>>
            ELSE /\ cn_destroy_calls' = Append(cn_destroy_calls, nodes_to_delete[cn_i])
                 /\ cn_i' = cn_i + 1
                 /\ UNCHANGED <<cn_pc, cn_result>>
    /\ UNCHANGED <<cn_prefix, nodes, nodes_to_delete>>
    /\ CnFrame

-----------------------------------------------------------------------------
(* create_ec2_instance_node and run_ec2_instance.  A call made by one of   *)
(* them runs the steps of the called function above; pv_pc names the       *)
(* statement the caller is at.                                             *)

\* line 300: the parameters of add_current_ip_to_prefix_list
AddIpParameters == {"client", "prefix_list_id", "ec2_objects_name_prefix"}

\* lines 100-104: the keywords create_ec2_instance_node passes
CreateNodeKeywords == {"client", "prefix_list_id", "ec2_objects_name_prefix"}

\* lines 279-283: the keywords run_ec2_instance passes
RunInstanceKeywords == {"client", "prefix_list_id", "workflow_id"}

\* a call with a keyword that names no parameter raises TypeError
UnexpectedKeyword(keywords, parameters) == ~(keywords \subseteq parameters)

\* a function body that goes from the prefix-list cleanup straight to the add call
NextStatementSkipsNodeCleanup(statement) ==
    CASE statement = "cleanup_old_prefix_list_entries" -> "add_current_ip_to_prefix_list"
      [] statement = "cleanup_old_ec2_test_instance" -> "add_current_ip_to_prefix_list"
      [] statement = "add_current_ip_to_prefix_list" -> "deploy_node"
      [] OTHER -> "done"

\* lines 90-131: the statement that follows a call that returned
NextStatement(statement) ==
    CASE statement = "cleanup_old_prefix_list_entries" -> "cleanup_old_ec2_test_instance"
      [] statement = "cleanup_old_ec2_test_instance" -> "add_current_ip_to_prefix_list"
      [] statement = "add_current_ip_to_prefix_list" -> "deploy_node"
      [] OTHER -> "done"

\* lines 120 and 198
NodeName(prefix, image_name) ==
    <<INSTANCE_NAME_STRING, IF Truthy(prefix) THEN TheValue(prefix) ELSE "", image_name>>

StepEntry(step, result) == [step |-> step, kind |-> result.kind, exc |-> result.exc]

PvIdle ==
    /\ pv_pc = "idle"
    /\ pv_fn = ""
    /\ pv_prefix = None
    /\ pv_log = <<>>
    /\ pv_node = None
    /\ pv_result = NoResult

\* lines 53-90: create_ec2_instance_node is called
create_ec2_instance_node(prefix) ==
    /\ pv_pc = "idle"
    /\ pv_fn' = "create_ec2_instance_node"
    /\ pv_prefix' = prefix
    /\ pv_pc' = "cleanup_old_prefix_list_entries"
    /\ UNCHANGED <<pv_log, pv_node, pv_result>>
    /\ UNCHANGED <<env_vars, bx_vars, tg_vars, dp_vars, pl_vars, dn_vars, ad_vars,
                   ib_vars, cn_vars>>

CreateEc2InstanceNode ==
    \E prefix \in {None, Some("wf1")} : create_ec2_instance_node(prefix)

\* lines 262-283: run_ec2_instance is called and calls
\* add_current_ip_to_prefix_list(client=..., prefix_list_id=..., workflow_id=unique_id).
\* The statements after that call (lines 285-297: prepare_node, run_command
\* and the finally clause) run only when it returns.
run_ec2_instance(unique_id) ==
    /\ pv_pc = "idle"
    /\ pv_fn' = "run_ec2_instance"
    /\ pv_prefix' = unique_id
    /\ IF UnexpectedKeyword(RunInstanceKeywords, AddIpParameters)
       THEN /\ pv_log' = Append(pv_log, StepEntry("add_current_ip_to_prefix_list",
                                                  Raised("TypeError")))
            /\ pv_result' = Raised("TypeError")
            /\ pv_pc' = "done"
       ELSE /\ pv_pc' = "add_current_ip_to_prefix_list"
            /\ UNCHANGED <<pv_log, pv_result>>
    /\ UNCHANGED pv_node
    /\ UNCHANGED <<env_vars, bx_vars, tg_vars, dp_vars, pl_vars, dn_vars, ad_vars,
                   ib_vars, cn_vars>>

RunEc2Instance ==
    \E unique_id \in {None, Some("wf1")} : run_ec2_instance(unique_id)

\* a call made at pv_pc has ended with the result r
CallEnded(r) ==
    /\ pv_log' = Append(pv_log, StepEntry(pv_pc, r))
    /\ IF r.kind = "raised"
       THEN pv_result' = r /\ pv_pc' = "done"
       ELSE pv_pc' = NextStatement(pv_pc) /\ UNCHANGED pv_result
    /\ UNCHANGED <<pv_fn, pv_prefix, pv_node>>

\* lines 90-94: the call of cleanup_old_prefix_list_entries
CallCleanupOldPrefixListEntries ==
    /\ pv_pc = "cleanup_old_prefix_list_entries"
    /\ cleanup_old_prefix_list_entries(pv_prefix)

\* lines 90-94: the call has returned or raised; its frame is gone
CleanupOldPrefixListEntriesEnded ==
    /\ pv_pc = "cleanup_old_prefix_list_entries"
    /\ pl_pc = "done"
    /\ CallEnded(pl_result)
    /\ pl_pc' = "idle"
    /\ pl_prefix' = None
    /\ entries' = <<>>
    /\ entries_to_remove' = <<>>
    /\ attempts' = 0
    /\ version' = None
    /\ pl_requests' = 0
    /\ pl_last_request' = [CurrentVersion |-> None, RemoveEntries |-> <<>>]
    /\ pl_result' = NoResult
    /\ pl_error' = None
    /\ UNCHANGED <<pl_entries, pl_version, pl_concurrent, current_time>>
    /\ UNCHANGED <<env_vars, bx_vars, tg_vars, dp_vars, dn_vars, ad_vars, ib_vars, cn_vars>>

\* lines 95-98: the call of cleanup_old_ec2_test_instance
CallCleanupOldEc2TestInstance ==
    /\ pv_pc = "cleanup_old_ec2_test_instance"
    /\ \E listing \in NodeListings : cleanup_old_ec2_test_instance(pv_prefix, listing)

\* lines 95-98: the call has returned or raised; its frame is gone
CleanupOldEc2TestInstanceEnded ==
    /\ pv_pc = "cleanup_old_ec2_test_instance"
    /\ cn_pc = "done"
    /\ CallEnded(cn_result)
    /\ cn_pc' = "idle"
    /\ cn_prefix' = None
    /\ nodes' = <<>>
    /\ nodes_to_delete' = <<>>
    /\ cn_i' = 0
    /\ cn_destroy_calls' = <<>>
    /\ cn_result' = NoResult
    /\ UNCHANGED <<env_vars, bx_vars, tg_vars, dp_vars, pl_vars, dn_vars, ad_vars, ib_vars>>

\* lines 100-104: the call of add_current_ip_to_prefix_list
CallAddCurrentIpToPrefixList ==
    /\ pv_pc = "add_current_ip_to_prefix_list"
    /\ IF UnexpectedKeyword(CreateNodeKeywords, AddIpParameters)
       THEN /\ CallEnded(Raised("TypeError"))
            /\ UNCHANGED <<env_vars, bx_vars, tg_vars, dp_vars, pl_vars, dn_vars, ad_vars,
                           ib_vars, cn_vars>>
       ELSE add_current_ip_to_prefix_list(pv_prefix)

\* lines 100-104: the call has returned or raised; its frame is gone
AddCurrentIpToPrefixListEnded ==
    /\ pv_pc = "add_current_ip_to_prefix_list"
    /\ ad_pc = "done"
    /\ CallEnded(ad_result)
    /\ ad_pc' = "idle"
    /\ ad_prefix' = None
    /\ ip_attempts' = 0
    /\ new_cidr' = None
    /\ ad_attempts' = 0
    /\ ad_version' = None
    /\ ad_reads' = 0
    /\ ad_requests' = 0
    /\ ad_last_request' = [CurrentVersion |-> None, AddEntries |-> <<>>]
    /\ ad_accepted' = 0
    /\ ad_start' = {}
    /\ ad_result' = NoResult
    /\ UNCHANGED <<others_added, others_removed>>
    /\ UNCHANGED <<env_vars, bx_vars, tg_vars, dp_vars, pl_vars, dn_vars, ib_vars, cn_vars>>

\* lines 107-152: ec2_driver.deploy_node returns the node, or DeploymentError
\* is logged and raised again
DeployNode(ok) ==
    /\ pv_pc = "deploy_node"
    /\ pv_fn = "create_ec2_instance_node"
    /\ LET n == [name |-> NodeName(pv_prefix, "ubuntu2204"), id |-> "i-1"]
           r == IF ok THEN Returned(Some(n)) ELSE Raised("DeploymentError")
       IN  /\ pv_log' = Append(pv_log, StepEntry("deploy_node", r))
           /\ pv_node' = IF ok THEN Some(n) ELSE None
           /\ pv_result' = r
    /\ pv_pc' = "done"
    /\ UNCHANGED <<pv_fn, pv_prefix>>
    /\ UNCHANGED <<env_vars, bx_vars, tg_vars, dp_vars, pl_vars, dn_vars, ad_vars,
                   ib_vars, cn_vars>>

-----------------------------------------------------------------------------
(* Specifications: one per component, the other components at rest.       *)

InitBuildx ==
    EnvInit /\ BxInit /\ TgIdle /\ DpInit /\ dp_result_dirs = {} /\ PlIdle /\ DnInit
    /\ AdIdle
    /\ IbInit
    /\ CnIdle
    /\ PvIdle

SpecBuildx == InitBuildx /\ [][BxNext]_vars

InitTags ==
    /\ EnvIdle
    /\ BxInit
    /\ tg_pc = "start"
    /\ tg_cls \in ALL_CONTAINERISED_AGENT_BUILDERS
    /\ tg_registry \in {"localhost:5000", "docker.io"}
    /\ tg_user \in {"user"}
    /\ tg_tags \in TagArgs
    /\ tg_result = <<>>
    /\ DpInit /\ dp_result_dirs = {}
    /\ PlIdle
    /\ DnInit
    /\ AdIdle
    /\ IbInit
    /\ CnIdle
    /\ PvIdle

TgNext == GenerateFinalRegistryTags

SpecTags == InitTags /\ [][TgNext]_vars

\* a result_dir may be left on disk by an earlier process
InitDeps ==
    /\ USE_GHA_CACHE = FALSE
    /\ CACHE_VERSION = ""
    /\ ALLOW_FALLBACK_TO_REMOTE_BUILDER = TRUE
    /\ BxInit
    /\ TgIdle
    /\ DpInit
    /\ dp_result_dirs \in {{}, {<<"ubuntu", "x86_64">>}}
    /\ PlIdle
    /\ DnInit
    /\ AdIdle
    /\ IbInit
    /\ CnIdle
    /\ PvIdle

DpNext == BuildAgentImageDependencies

SpecDeps == InitDeps /\ [][DpNext]_vars

InitPrefixList ==
    /\ EnvIdle
    /\ BxInit
    /\ TgIdle
    /\ DpInit /\ dp_result_dirs = {}
    /\ pl_entries \in PrefixLists
    /\ pl_version = 1
    /\ pl_concurrent = 0
    /\ current_time = 1000
    /\ pl_pc = "idle"
    /\ pl_prefix = None
    /\ entries = <<>>
    /\ entries_to_remove = <<>>
    /\ attempts = 0
    /\ version = None
    /\ pl_requests = 0
    /\ pl_last_request = [CurrentVersion |-> None, RemoveEntries |-> <<>>]
    /\ pl_result = NoResult
    /\ pl_error = None
    /\ DnInit
    /\ AdIdle
    /\ IbInit
    /\ CnIdle
    /\ PvIdle

PlNext ==
    \/ CleanupOldPrefixListEntries
    \/ GetPrefixListVersion
    \/ ModifyManagedPrefixList
    \/ ConcurrentModify

SpecPrefixList == InitPrefixList /\ [][PlNext]_vars

InitDestroy ==
    /\ EnvIdle
    /\ BxInit
    /\ TgIdle
    /\ DpInit /\ dp_result_dirs = {}
    /\ PlIdle
    /\ DnInit
    /\ AdIdle
    /\ IbInit
    /\ CnIdle
    /\ PvIdle

DnNext ==
    \/ DestroyNodeAndCleanup
    \/ NodeDestroy
    \/ ListVolumes
    \/ WaitDetached
    \/ VolumeLoop
    \/ DestroyVolumeWithRetry

SpecDestroy == InitDestroy /\ [][DnNext]_vars

\* the add call against a list that holds entries of other runs, then a cleanup
InitAddIp ==
    /\ EnvIdle
    /\ BxInit
    /\ TgIdle
    /\ DpInit /\ dp_result_dirs = {}
    /\ pl_entries \in OtherOwnersLists
    /\ pl_version = 1
    /\ pl_concurrent = 0
    /\ current_time = 1000
    /\ pl_pc = "idle"
    /\ pl_prefix = None
    /\ entries = <<>>
    /\ entries_to_remove = <<>>
    /\ attempts = 0
    /\ version = None
    /\ pl_requests = 0
    /\ pl_last_request = [CurrentVersion |-> None, RemoveEntries |-> <<>>]
    /\ pl_result = NoResult
    /\ pl_error = None
    /\ DnInit
    /\ AdIdle
    /\ IbInit
    /\ CnIdle
    /\ PvIdle

AdNext ==
    \/ AddCurrentIpToPrefixList
    \/ GetPublicIp
    \/ AddGetPrefixListVersion
    \/ AddModifyManagedPrefixList
    \/ ConcurrentUpdate
    \/ AddReturn
    \/ CleanupAfterAdd
    \/ GetPrefixListVersion
    \/ ModifyManagedPrefixList

SpecAddIp == InitAddIp /\ [][AdNext]_vars

\* the builders of one process, under every setting of the two switches
InitBuilder ==
    /\ USE_GHA_CACHE \in BOOLEAN
    /\ CACHE_VERSION = ""
    /\ ALLOW_FALLBACK_TO_REMOTE_BUILDER \in BOOLEAN
    /\ bx_pc = "idle"
    /\ bx_call = NoCall
    /\ cmd_args = <<>>
    /\ fallback_timeout = None
    /\ retry = FALSE
    /\ process = "none"
    /\ returncode = None
    /\ stdout = <<>>
    /\ output_buffer = <<>>
    /\ stderr_buffer = <<>>
    /\ remote_runs = <<>>
    /\ remote_returncode = None
    /\ builder_lookups = <<>>
    /\ process_tree = <<>>
    /\ terminations = <<>>
    /\ fs = [p \in BuilderPaths |-> "absent"]
    /\ extractions = 0
    /\ bx_result = NoResult
    /\ TgIdle
    /\ DpInit /\ dp_result_dirs = {}
    /\ PlIdle
    /\ DnInit
    /\ AdIdle
    /\ IbInit
    /\ CnIdle
    /\ PvIdle

\* the steps of the buildx_build call a builder has started
BxSteps ==
    \/ \E rc \in ExitCodes : Communicate(rc)
    \/ CommunicateTimeout
    \/ WriteStdout
    \/ CheckReturncode
    \/ \E ok \in BOOLEAN : GetRemoteBuilder(ok)
    \/ \E rc \in ExitCodes : RemoteRun(rc)
    \/ Extract
    \/ Return

\* the steps of _build
BuildSteps ==
    \/ build_requirement_libs
    \/ RequirementLibsLoop
    \/ RequirementLibsBuilt
    \/ _build_final_image_base_oci_layout
    \/ FinalImageBaseBuilt
    \/ \E ok \in BOOLEAN : create_agent_filesystem(ok)
    \/ FinalBuild
    \/ FinalImageBuilt

\* build calls on the builder instances of one process, one after the other
IbNext ==
    \/ Build
    \/ BuildSteps
    \/ BxSteps

SpecBuild == InitBuilder /\ [][IbNext]_vars

\* the first publish call of a process
PublishOnce == ib_ops = 0 /\ Publish

PbNext ==
    \/ PublishOnce
    \/ BuildSteps
    \/ DeleteContainerBefore
    \/ \E rc \in ExitCodes : Copy(rc)
    \/ DeleteContainerAfter
    \/ BxSteps

SpecPublish == InitBuilder /\ [][PbNext]_vars

InitCleanupNodes == InitDestroy

CnNext ==
    \/ CleanupOldEc2TestInstance
    \/ DeleteNodes

SpecCleanupNodes == InitCleanupNodes /\ [][CnNext]_vars

\* a provisioning call against a prefix list that holds entries of other runs
InitProvision == InitAddIp

PvNext ==
    \/ CreateEc2InstanceNode
    \/ RunEc2Instance
    \/ CallCleanupOldPrefixListEntries
    \/ GetPrefixListVersion
    \/ ModifyManagedPrefixList
    \/ CleanupOldPrefixListEntriesEnded
    \/ CallCleanupOldEc2TestInstance
    \/ DeleteNodes
    \/ CleanupOldEc2TestInstanceEnded
    \/ CallAddCurrentIpToPrefixList
    \/ GetPublicIp
    \/ AddGetPrefixListVersion
    \/ AddModifyManagedPrefixList
    \/ AddCurrentIpToPrefixListEnded
    \/ \E ok \in BOOLEAN : DeployNode(ok)

SpecProvision == InitProvision /\ [][PvNext]_vars

-----------------------------------------------------------------------------
(* Properties of buildx_build, checked under SpecBuildx.                   *)

BxDone == bx_pc = "done"

FallbackRequested ==
    /\ Truthy(bx_call.cache_name)
    /\ bx_call.fallback_to_remote_builder
    /\ ALLOW_FALLBACK_TO_REMOTE_BUILDER
    /\ single_arch(bx_call.architecture)

LocalSucceeded == process = "exited" /\ returncode = Some(0)

RemoteSucceeded == Len(remote_runs) = 1 /\ remote_returncode = Some(0)

\* C1: a single-architecture call with a cache name, the fallback flag and
\* the global switch on, whose local build does not finish within the
\* bounded wait (and for which a remote builder is available), invokes the
\* remote build exactly once, with the local argument list plus only
\* --builder=<remote builder name>.
C1_TimeoutRunsRemoteOnce ==
    (BxDone /\ FallbackRequested /\ retry /\ bx_result.exc # "RemoteBuilderError")
        => /\ Len(remote_runs) = 1
           /\ remote_runs[1] = Append(cmd_args,
                "--builder=" \o RemoteBuilderName(bx_call.architecture.archs[1]))

\* C2: the remote builder is looked up or run, and a bounded wait is armed,
\* only when a cache name is supplied, fallback_to_remote_builder is True,
\* ALLOW_FALLBACK_TO_REMOTE_BUILDER is on and one architecture is targeted;
\* a list of more than one architecture is always awaited unboundedly and
\* never reaches the remote builder.
C2_RemoteOnlyWhenAllowed ==
    /\ (fallback_timeout # None \/ retry \/ builder_lookups # <<>> \/ remote_runs # <<>>)
            => FallbackRequested
    /\ (bx_pc # "idle" /\ Len(bx_call.architecture.archs) > 1)
            => /\ fallback_timeout = None
               /\ ~retry
               /\ builder_lookups = <<>>
               /\ remote_runs = <<>>

C2_Witness ==
    BxDone /\ Len(remote_runs) = 1 /\ bx_call.architecture.isList

\* C3: when the local process finished (no timeout) with a non-zero exit
\* code the call raises "Build command has failed.", and neither an
\* extraction nor a remote-builder lookup or run ever happens.
C3_LocalFailureIsFatal ==
    (process = "exited" /\ returncode # Some(0))
        => /\ bx_pc \in {"write_stdout", "check_returncode", "done"}
           /\ extractions = 0
           /\ builder_lookups = <<>>
           /\ remote_runs = <<>>
           /\ BxDone => bx_result = Raised("Build command has failed.")

C3_Witness ==
    BxDone /\ process = "exited" /\ returncode = Some(1) /\ bx_result.kind = "raised"

\* C4: once the remote build has been started its exit code alone decides
\* the call: the call returns iff that exit code is 0, the exit code of the
\* terminated local process plays no part, and there is never a second
\* remote build.
C4_RemoteExitCodeDecides ==
    /\ Len(remote_runs) <= 1
    /\ (BxDone /\ remote_runs # <<>>)
            => /\ retry
               /\ (bx_result.kind = "returned" <=> remote_returncode = Some(0))
               /\ (bx_result.kind = "raised" <=> remote_returncode # Some(0))

C4_Witness ==
    BxDone /\ remote_returncode = Some(0) /\ returncode = None
        /\ bx_result.kind = "returned"

\* C5: for an OCITarballBuildOutput the tarball is extracted iff extract is
\* True and the build (local or remote) succeeded; with extract=True the
\* engine is told to write <dest>.tar and dest holds the extracted tree,
\* with extract=False the engine is told to write dest, which stays the
\* tarball, and nothing is extracted.
C5_ExtractIffRequestedAndBuilt ==
    (BxDone /\ bx_call.output.kind = "oci")
        => LET dest == bx_call.output.dest
               built == LocalSucceeded \/ RemoteSucceeded
           IN  /\ extractions = (IF bx_call.output.extract /\ built THEN 1 ELSE 0)
               /\ bx_call.output.extract
                    => /\ \E i \in 1..Len(cmd_args) :
                            cmd_args[i] = "--output=type=oci,dest=" \o dest \o ".tar"
                       /\ built => /\ fs[dest \o ".tar"] = "tarball"
                                   /\ fs[dest] = "tree"
               /\ (~bx_call.output.extract)
                    => /\ \E i \in 1..Len(cmd_args) :
                            cmd_args[i] = "--output=type=oci,dest=" \o dest
                       /\ built => fs[dest] = "tarball"
                       /\ fs[dest \o ".tar"] = "absent"

C5_Witness ==
    BxDone /\ bx_call.output.kind = "oci" /\ bx_call.output.extract
        /\ extractions = 1 /\ RemoteSucceeded

\* C6: with capture_output=True a call in which no build attempt failed (the
\* local build exited 0, or it timed out and the remote build took over)
\* returns the captured output.
C6_CapturedOutputReturned ==
    (BxDone /\ bx_call.capture_output)
        => \/ /\ bx_result.kind = "returned"
              /\ bx_result.value = Some(output_buffer)
              /\ output_buffer # <<>>
           \/ process = "exited" /\ returncode # Some(0)
           \/ remote_returncode # None /\ remote_returncode # Some(0)
           \/ bx_result.exc \in {"RemoteBuilderError", "FileNotFoundError"}

-----------------------------------------------------------------------------
(* Properties of generate_final_registry_tags, checked under SpecTags.      *)

\* C7: the result has |image names| * |tags| * |tag suffixes| entries, and
\* the entry for the n-th image name, t-th tag and x-th suffix is
\* registry/user/name:tag+suffix at position ((n-1)*|tags| + (t-1))*|suffixes| + x:
\* every combination once, image name outermost, tag in the middle, suffix
\* innermost.
C7_TagsAreOrderedProduct ==
    tg_pc = "done"
        => LET names == _IMAGE_REGISTRY_NAMES(tg_cls.IMAGE_TYPE)
               sufs == tg_cls.TAG_SUFFIXES
               T == Len(tg_tags)
               S == Len(sufs)
           IN  /\ Len(tg_result) = Len(names) * T * S
               /\ \A n \in 1..Len(names), t \in 1..T, x \in 1..S :
                    tg_result[((n - 1) * T + (t - 1)) * S + x]
                        = tg_registry \o "/" \o tg_user \o "/" \o names[n]
                            \o ":" \o tg_tags[t] \o sufs[x]

C7_Witness ==
    /\ tg_pc = "done"
    /\ tg_cls.NAME = "docker-syslog-ubuntu"
    /\ tg_registry = "localhost:5000"
    /\ tg_tags = <<"latest", "test">>
    /\ tg_result = <<"localhost:5000/user/scalyr-agent-docker-syslog:latest-ubuntu",
                     "localhost:5000/user/scalyr-agent-docker-syslog:latest",
                     "localhost:5000/user/scalyr-agent-docker-syslog:test-ubuntu",
                     "localhost:5000/user/scalyr-agent-docker-syslog:test",
                     "localhost:5000/user/scalyr-agent-docker:latest-ubuntu",
                     "localhost:5000/user/scalyr-agent-docker:latest",
                     "localhost:5000/user/scalyr-agent-docker:test-ubuntu",
                     "localhost:5000/user/scalyr-agent-docker:test">>

-----------------------------------------------------------------------------
(* Properties of build_agent_image_dependencies, checked under SpecDeps.   *)

\* C8: in one process the build of a (base_distro, architecture) pair has
\* succeeded exactly once if the pair is recorded and never otherwise, and a
\* call for a pair that is already recorded invokes no build: it does at
\* most the copy to output_dir.
C8_BuildOncePerPair ==
    /\ \A q \in DepPairs :
        dp_builds_ok[q] = (IF q[2] \in _existing_built_dependencies[q[1]] THEN 1 ELSE 0)
    /\ dp_last.was_recorded
            => /\ ~dp_last.built
               /\ dp_last.copied => dp_last.output_dir # None
    /\ (dp_calls > 0 /\ ~dp_last.was_recorded) => dp_last.built

C8_Witness ==
    /\ dp_last.was_recorded
    /\ dp_last.copied
    /\ dp_builds[dp_last.pair] = 1
    /\ dp_calls = 2

-----------------------------------------------------------------------------
(* Properties of destroy_node_and_cleanup, checked under SpecDestroy.      *)

\* C9: for a node whose name lacks INSTANCE_NAME_STRING the call raises
\* (the assertion fails) and makes no driver call at all: no node destroy,
\* no volume listing, no volume destroy.
C9_RefusesUnmarkedNode ==
    (dn_pc # "idle" /\ ~NameContains(node.name, "automated-agent-ci-cd"))
        => /\ dn_pc = "done"
           /\ dn_result = Raised("AssertionError")
           /\ dn_api = <<>>
           /\ dn_destroyed = {}

C9_Witness ==
    /\ dn_pc = "done"
    /\ node.name = <<"prod", "db">>
    /\ dn_result.kind = "raised"

-----------------------------------------------------------------------------
(* Properties of the prefix-list cleanup, checked under SpecPrefixList.    *)

\* C10: a cleanup called without an ownership prefix hands to _remove_entries
\* exactly the entries whose timestamp is at or before current_time - 420,
\* every request it sends removes exactly those, and when there is no such
\* entry it returns without sending a modify request.
C10_RemovesExactlyOldEntries ==
    (pl_pc # "idle" /\ pl_prefix = None)
        => LET old == {i \in 1..Len(entries) : entries[i].Description.time <= current_time - 420}
           IN  /\ CidrsOf(entries_to_remove) = {entries[i].Cidr : i \in old}
               /\ Len(entries_to_remove) = Cardinality(old)
               /\ pl_requests > 0
                    => CidrsOf(pl_last_request.RemoveEntries) = {entries[i].Cidr : i \in old}
               /\ old = {} => /\ pl_requests = 0
                              /\ pl_pc = "done"
                              /\ pl_result = Returned(None)
               /\ (old # {} /\ pl_result.kind = "returned") => pl_requests > 0

\* the entries [now - 1000 s, now - 100 s]: only the first one is removed
C10_Witness ==
    /\ pl_pc = "done"
    /\ pl_prefix = None
    /\ pl_result.kind = "returned"
    /\ Len(entries) = 2
    /\ entries[1].Description.time = current_time - 1000
    /\ entries[2].Description.time = current_time - 100
    /\ pl_last_request.RemoveEntries = <<[Cidr |-> entries[1].Cidr]>>
    /\ CidrsOf(pl_entries) = {entries[2].Cidr}

-----------------------------------------------------------------------------
(* Properties of add_current_ip_to_prefix_list and of the cleanup that     *)
(* follows it, checked under SpecAddIp.                                    *)

\* the add call has returned and a cleanup was called with the same,
\* non-empty ownership prefix
OwnCleanupCalled ==
    /\ ad_pc = "returned"
    /\ Truthy(ad_prefix)
    /\ pl_pc # "idle"
    /\ pl_prefix = ad_prefix

\* C11: the entry that add_current_ip_to_prefix_list wrote with ownership
\* prefix P is scheduled for removal by a later cleanup called with the same
\* P, whatever its age, and the cleanup keeps the entries of other owners
\* that are younger than the threshold.
C11_OwnEntryScheduledForRemoval ==
    OwnCleanupCalled
        => /\ pl_result.kind # "raised"
           /\ TheValue(new_cidr) \in CidrsOf(entries_to_remove)
           /\ \A i \in 1..Len(entries) :
                 (/\ entries[i].Cidr # TheValue(new_cidr)
                  /\ entries[i].Description.time > current_time - 420)
                     => entries[i].Cidr \notin CidrsOf(entries_to_remove)

\* C18: add_current_ip_to_prefix_list sends at most
\* MAX_PREFIX_LIST_UPDATE_ATTEMPTS (20) modify requests, and it returns only
\* after one of its requests was accepted.
C18_AtMostMaxModifyAttempts ==
    /\ ad_requests <= 20
    /\ (ad_pc = "done" /\ ad_result.kind = "returned")
          => /\ ad_accepted = 1
             /\ TheValue(new_cidr) \in CidrsOf(pl_entries)

\* C19: every modify request of the add call follows a version read of the
\* same attempt and carries that version; the request that was accepted
\* carried the version that was current; a rejected request is retried
\* after a fresh read until the attempts are used up; and when the call
\* returns, the list holds the caller's /32 entry on top of every update of
\* the other runs that was accepted in the meantime.
C19_NoLostUpdate ==
    /\ ad_pc = "get_version" => ad_reads = ad_requests
    /\ ad_pc = "modify" => /\ ad_reads = ad_requests + 1
                           /\ ad_version # None
    /\ (ad_pc \in {"get_version", "done"} /\ ad_requests > 0)
          => ad_last_request.CurrentVersion = ad_version
    /\ (ad_pc = "done" /\ ad_result.kind = "raised" /\ new_cidr # None)
          => ad_attempts >= 20
    /\ (ad_pc = "done" /\ ad_result.kind = "returned")
          => /\ ad_accepted = 1
             /\ ad_last_request.CurrentVersion = Some(pl_version - 1)
             /\ CidrsOf(pl_entries) =
                    ((ad_start \ others_removed) \cup others_added)
                        \cup {TheValue(new_cidr)}
    /\ pl_requests > 0 => pl_last_request.CurrentVersion = version

\* another run's entry was accepted between the call's first read and its
\* request, the request was rejected, and the retry was accepted
C19_Witness ==
    /\ ad_pc = "done"
    /\ ad_result.kind = "returned"
    /\ others_added = {OtherCidr(1)}
    /\ ad_attempts = 1
    /\ ad_reads = 2
    /\ ad_last_request.CurrentVersion = Some(2)
    /\ pl_version = 3

-----------------------------------------------------------------------------
(* Properties of _remove_entries, checked under SpecPrefixList.            *)

-----------------------------------------------------------------------------
(* Properties of _build and its stages, checked under SpecBuild.           *)

RangeOf(s) == {s[i] : i \in DOMAIN s}

\* this step starts a buildx_build call
EngineInvoked == bx_pc = "idle" /\ bx_pc' = "communicate"

\* C12: for each builder class the two flags never go from true back to
\* false, no buildx_build call for a stage is started by an instance of a
\* class whose flag for that stage is true, and each of the two stages
\* completes at most once per class.
C12_StagesCompleteOnce ==
    [][/\ \A n \in BuilderNames :
            /\ _requirements_libs_already_built[n] => _requirements_libs_already_built'[n]
            /\ _final_image_base_already_built[n] => _final_image_base_already_built'[n]
            /\ stage_completions'[n]["requirement_libs"] <= 1
            /\ stage_completions'[n]["final_image_base"] <= 1
       /\ (EngineInvoked /\ bx_call'.stage = Some("requirement_libs"))
            => ~_requirements_libs_already_built[ib_self.cls.NAME]
       /\ (EngineInvoked /\ bx_call'.stage = Some("final_image_base"))
            => ~_final_image_base_already_built[ib_self.cls.NAME]
      ]_vars

\* a second instance of a class whose stages are built goes straight to the
\* agent filesystem and the final build
C12_Witness ==
    /\ ib_ops = 2
    /\ ib_self.id = 2
    /\ ib_pc = "final_build_wait"
    /\ stage_completions[ib_self.cls.NAME]["requirement_libs"] = 1
    /\ stage_completions[ib_self.cls.NAME]["final_image_base"] = 1
    /\ Len(ib_log) = 2
    /\ ib_log[1].stage = "agent_filesystem"

\* C13: while the buildx_build call of the base-image stage runs, its
\* command line is the one below, without any --cache-from / --cache-to
\* option, it has no bounded wait, and no remote builder is looked up or
\* run, whatever USE_GHA_CACHE and ALLOW_FALLBACK_TO_REMOTE_BUILDER are.
C13_BaseImageNeverCached ==
    (bx_pc # "idle" /\ bx_call.stage = Some("final_image_base"))
        => /\ cmd_args =
                <<"docker", "buildx", "build", "-f=container_images/dependencies.Dockerfile",
                  "--progress=plain",
                  "--platform=linux/amd64", "--platform=linux/arm64", "--platform=linux/arm/v7",
                  "--build-arg=BASE_DISTRO=" \o ib_self.cls.BASE_DISTRO,
                  "--build-arg=AGENT_REQUIREMENTS=agent_requirements",
                  "--build-arg=TEST_REQUIREMENTS=requirements_dev_coverage",
                  "--target=final_image_base",
                  "--output=type=oci,dest=/work/" \o ib_self.cls.NAME \o "/final_image_base.tar",
                  "container_images">>
           /\ fallback_timeout = None
           /\ retry = FALSE
           /\ builder_lookups = <<>>
           /\ remote_runs = <<>>

\* the base image was built locally with both switches on
C13_Witness ==
    /\ USE_GHA_CACHE
    /\ ALLOW_FALLBACK_TO_REMOTE_BUILDER
    /\ bx_call.stage = Some("final_image_base")
    /\ bx_pc = "done"
    /\ bx_result.kind = "returned"

StageRank(stage) ==
    CASE stage = "requirement_libs" -> 1
      [] stage = "final_image_base" -> 2
      [] stage = "agent_filesystem" -> 3
      [] OTHER -> 4

\* C14: what a build call does is ordered requirement libs, base image,
\* agent filesystem, final image; and while the final buildx_build call
\* runs, the two stages are flagged built for the class, the outputs of the
\* three stages are on disk, and the call names them as its build contexts.
C14_StagesInOrder ==
    /\ \A i, j \in 1..Len(ib_log) :
          i < j => StageRank(ib_log[i].stage) <= StageRank(ib_log[j].stage)
    /\ ib_pc = "final_build_wait"
          => LET w == "/work/" \o ib_self.cls.NAME
             IN  /\ _requirements_libs_already_built[ib_self.cls.NAME]
                 /\ _final_image_base_already_built[ib_self.cls.NAME]
                 /\ ib_log[Len(ib_log) - 1] = LogEntry("stage_done", "agent_filesystem", <<>>)
                 /\ fs[w \o "/requirement_libs/linux_amd64_"] = "tree"
                 /\ fs[w \o "/requirement_libs/linux_arm64_"] = "tree"
                 /\ fs[w \o "/requirement_libs/linux_arm_v7"] = "tree"
                 /\ fs[w \o "/final_image_base"] = "tree"
                 /\ fs[w \o "/agent_filesystem"] = "tree"
                 /\ bx_call.stage = None
                 /\ Len(bx_call.architecture.archs) = 3
                 /\ {"--build-context=base_image=oci-layout:///" \o w \o "/final_image_base",
                     "--build-context=requirement_libs=" \o w \o "/requirement_libs",
                     "--build-context=agent_filesystem=" \o w \o "/agent_filesystem"}
                        \subseteq RangeOf(cmd_args)

\* the first build of a class: three requirement-libs calls, the base image,
\* the agent filesystem, then the final call
C14_Witness ==
    /\ ib_pc = "final_build_wait"
    /\ ib_ops = 1
    /\ Len(ib_log) = 8
    /\ ib_log[1].stage = "requirement_libs"
    /\ ib_log[5].stage = "final_image_base"
    /\ ib_log[7].stage = "agent_filesystem"
    /\ ib_log[8] = LogEntry("buildx_build", "final_image", cmd_args)

-----------------------------------------------------------------------------
(* Properties of publish, checked under SpecPublish.                       *)

\* positions of the log where the call built something
BuildEntries == {i \in 1..Len(ib_log) : ib_log[i].e \in {"buildx_build", "stage_done"}}

\* positions of the log where a copy was run
CopyEntries == {i \in 1..Len(ib_log) : ib_log[i].e = "copy"}

\* positions of the log where the copy container was force-removed
DeleteEntries == {i \in 1..Len(ib_log) : ib_log[i].e = "delete_container"}

\* the call is in its copy phase or has left it
ReachedCopyLoop == DeleteEntries # {}

\* C15: a publish call builds exactly when no existing OCI layout is given;
\* the final image is built before the first copy and nothing is built
\* after it; the k-th copy is one command for the k-th tag alone, and a call
\* that returns has run one copy per tag.
C15_BuildThenOneCopyPerTag ==
    ib_op = "publish"
        => /\ existing_oci_layout_dir # None => BuildEntries = {}
           /\ (existing_oci_layout_dir = None /\ ReachedCopyLoop)
                 => \E i \in BuildEntries :
                        /\ ib_log[i] = LogEntry("stage_done", "final_image", <<>>)
                        /\ \A j \in CopyEntries \cup DeleteEntries : i < j
           /\ \A i \in BuildEntries : \A j \in CopyEntries \cup DeleteEntries : i < j
           /\ Cardinality(CopyEntries) <= Len(pub_tags)
           /\ \A i \in CopyEntries :
                 LET k == Cardinality({j \in CopyEntries : j <= i})
                     cmd == ib_log[i].cmd
                 IN  /\ cmd[Len(cmd)] = "docker://" \o pub_tags[k]
                     /\ cmd[Len(cmd) - 1] = "oci-archive:/tmp/oci_layout.tar"
                     /\ Len(cmd) = Len(publish_cmd_args) + 2
           /\ (ib_pc = "done" /\ ib_result.kind = "returned")
                 => Cardinality(CopyEntries) = Len(pub_tags)

\* a publish without an existing layout built the image and copied two tags
C15_Witness ==
    /\ ib_op = "publish"
    /\ ib_pc = "done"
    /\ ib_result.kind = "returned"
    /\ existing_oci_layout_dir = None
    /\ Len(pub_tags) = 2
    /\ Cardinality(CopyEntries) = 2
    /\ BuildEntries # {}

\* C16: a publish call that reached the copy loop and has ended, whether by
\* returning or by a failed copy, force-removed the container before the
\* first copy and again after the last one.
C16_ContainerRemovedBeforeAndAfter ==
    (ib_op = "publish" /\ ib_pc = "done" /\ ReachedCopyLoop)
        => /\ Cardinality(DeleteEntries) = 2
           /\ \A i \in CopyEntries : \E d1, d2 \in DeleteEntries : d1 < i /\ i < d2
           /\ ib_log[Len(ib_log)].e = "delete_container"

\* C17: the copy commands of a publish call carry --dest-no-creds and
\* --dest-tls-verify=false exactly when neither a username nor a password
\* is given; when one of them is given they carry a --dest-creds option and
\* neither of the two.
C17_InsecureOnlyWithoutCredentials ==
    \A i \in CopyEntries :
        LET options == RangeOf(ib_log[i].cmd)
            absent == /\ registry_username \in {None, Some("")}
                      /\ registry_password \in {None, Some("")}
            dest_creds == {"--dest-creds=user:secret", "--dest-creds=user:None",
                           "--dest-creds=user:", "--dest-creds=None:secret"}
        IN  /\ absent <=> "--dest-tls-verify=false" \in options
            /\ absent <=> "--dest-no-creds" \in options
            /\ absent <=> options \cap dest_creds = {}
            /\ Cardinality(options \cap dest_creds) <= 1

\* only a username is given: the copy runs with credentials and verification
C17_Witness ==
    /\ ib_pc = "done"
    /\ ib_result.kind = "returned"
    /\ registry_username = Some("user")
    /\ registry_password = None
    /\ Cardinality(CopyEntries) = 2
    /\ "--dest-creds=user:None" \in RangeOf(ib_log[Len(ib_log) - 1].cmd)

-----------------------------------------------------------------------------
(* Further properties of destroy_node_and_cleanup and                      *)
(* destroy_volume_with_retry, checked under SpecDestroy.                   *)

\* the driver.destroy_volume calls made so far
DestroyAttempts == Cardinality({i \in DOMAIN dn_api : dn_api[i] = "destroy_volume"})

\* C21: when node.destroy fails with a "does not exist" error the call is
\* not ended by it and goes on to list the node's volumes; when it fails
\* with any other error the call raises that error, node.destroy was its
\* only driver call and no volume is destroyed.
C21_NodeNotFoundTolerated ==
    \A e \in NodeDestroyOutcomes \ {"ok"} :
        dn_node_error = Some(e) =>
            IF e = "InvalidInstanceID.NotFound: The instance ID does not exist"
            THEN /\ dn_pc = "list_volumes" \/ "list_volumes" \in RangeOf(dn_api)
                 /\ dn_result # Raised(e)
            ELSE /\ dn_pc = "done"
                 /\ dn_result = Raised(e)
                 /\ dn_api = <<"node.destroy">>
                 /\ dn_destroyed = {}

C21_Witness ==
    /\ dn_node_error = Some("InvalidInstanceID.NotFound: The instance ID does not exist")
    /\ dn_pc = "done"
    /\ dn_result = Returned(None)
    /\ dn_destroyed # {}

\* C22: a volume is destroyed (or its destroy attempted) only after
\* node.destroy was the first driver call and a listing of the node's
\* volumes came back empty; a call that raised TimeoutError attempted no
\* volume destroy; and every volume whose destroy is attempted was listed
\* as attached to this node and has size 8 or 30.
C22_VolumesDestroyedOnlyAfterDetach ==
    /\ (dn_pc \in {"volume_loop", "destroy_volume"} \/ DestroyAttempts > 0)
            => /\ dn_api # <<>>
               /\ dn_api[1] = "node.destroy"
               /\ remaining_volumes = <<>>
    /\ dn_result = Raised("TimeoutError")
            => /\ DestroyAttempts = 0
               /\ dn_destroyed = {}
               /\ remaining_volumes # <<>>
    /\ \A i \in 1..Len(volumes) :
            ((dn_pc = "destroy_volume" /\ dn_i = i) \/ volumes[i].id \in dn_destroyed)
                => /\ volumes[i].instance_id = Some(node.id)
                   /\ volumes[i].size \in {8, 30}
    /\ dn_destroyed \subseteq {volumes[i].id : i \in 1..Len(volumes)}

C22_Witness ==
    /\ dn_polls > 0
    /\ dn_destroyed # {}
    /\ dn_result = Returned(None)

\* C23: destroy_volume_with_retry calls driver.destroy_volume at most 12
\* times; a call after the first is made only when the previous one failed
\* with VolumeInUse; after a "not found" error the volume counts as
\* destroyed; any other error ends the call by being raised.
C23_RetriesOnlyVolumeInUse ==
    /\ [](/\ DestroyAttempts <= 12
          /\ dn_volume_error = Some("InvalidVolume.NotFound") => destroyed
          /\ \A e \in VolumeDestroyOutcomes \ {"ok", "InvalidVolume.NotFound", "VolumeInUse"} :
                dn_volume_error = Some(e) => dn_pc = "done" /\ dn_result = Raised(e)
          /\ destroyed => dn_volume_error \in {None, Some("InvalidVolume.NotFound")})
    /\ [][(DestroyAttempts' > DestroyAttempts /\ DestroyAttempts > 0)
            => (dn_volume_error = Some("VolumeInUse") /\ ~destroyed)]_vars

C23_Witness ==
    /\ DestroyAttempts = 12
    /\ retry_count = 12
    /\ dn_pc = "done"
    /\ dn_result = Returned(None)

-----------------------------------------------------------------------------
(* Properties of cleanup_old_ec2_test_instance, checked under              *)
(* SpecCleanupNodes.                                                       *)

\* the listed nodes the cleanup is to destroy: marked, and owned by the
\* caller or launched before the threshold
NodesDue ==
    {nodes[i] : i \in {j \in 1..Len(nodes) :
        /\ NameContains(nodes[j].name, "automated-agent-ci-cd")
        /\ \/ cn_prefix # None /\ NameContains(nodes[j].name, TheValue(cn_prefix))
           \/ nodes[j].launch_time # None /\ TheValue(nodes[j].launch_time) < 1000 - 240}}

\* C26: a cleanup_old_ec2_test_instance call that has ended has returned
\* without an error and has handed to destroy_node_and_cleanup exactly the
\* listed nodes that carry the marker and are owned by the caller or older
\* than four hours.
C26_DestroysExactlyDueNodes ==
    cn_pc = "done"
        => /\ cn_result.kind = "returned"
           /\ RangeOf(cn_destroy_calls) = NodesDue

-----------------------------------------------------------------------------
(* Properties of create_ec2_instance_node and run_ec2_instance, checked    *)
(* under SpecProvision.                                                    *)

StepsLogged == {pv_log[i].step : i \in 1..Len(pv_log)}

-----------------------------------------------------------------------------
(* Further properties of buildx_build, checked under SpecBuildx.           *)

\* C27: once the bounded wait has expired, terminate() has been called
\* exactly once on every process of the build child's tree, on every
\* process before its parent and on the build child last; and a remote
\* builder is looked up, and a remote build run, only after that.
C27_TreeTerminatedChildrenFirst ==
    /\ retry
        => /\ Len(terminations) = Len(process_tree)
           /\ RangeOf(terminations) = 1..Len(process_tree)
           /\ \A i, j \in 1..Len(terminations) :
                process_tree[terminations[i]] = terminations[j] => i < j
           /\ terminations # <<>>
           /\ terminations[Len(terminations)] = 1
    /\ (builder_lookups # <<>> \/ remote_runs # <<>>)
        => /\ retry
           /\ process = "terminated"
           /\ Len(terminations) = Len(process_tree)
           /\ terminations # <<>>

C27_Witness ==
    /\ retry
    /\ process_tree = <<0, 1, 2>>
    /\ terminations = <<3, 2, 1>>
    /\ remote_runs # <<>>

\* the cache options buildx_build can put on the command line
KnownCacheOptions ==
    {o \o l : o \in {"--cache-from=type=gha,scope=", "--cache-to=type=gha,scope=",
                     "--cache-from=type=local,src=/agent_build_output/docker_cache/",
                     "--cache-to=type=local,dest=/agent_build_output/docker_cache/"},
              l \in {"deps", "deps_v2", "", "_v2"}}

\* the cache scope of a cache name: the name, suffixed with a non-empty CACHE_VERSION
VersionedScope(name) == IF CACHE_VERSION = "" THEN name ELSE name \o "_" \o "v2"

\* C28: with a cache name, the command line of buildx_build has exactly one
\* cache-from and one cache-to option, in this order, both of type gha with
\* the versioned scope when USE_GHA_CACHE is set and both of type local
\* with the cache directory of the versioned scope otherwise; without a
\* cache name it has no cache option.
C28_CachePairUsesVersionedScope ==
    bx_pc # "idle"
        => LET options == SelectSeq(cmd_args, LAMBDA a : a \in KnownCacheOptions)
           IN  IF bx_call.cache_name \in {None, Some("")}
               THEN options = <<>>
               ELSE LET scope == VersionedScope(TheValue(bx_call.cache_name))
                    IN  IF USE_GHA_CACHE
                        THEN options = <<"--cache-from=type=gha,scope=" \o scope,
                                         "--cache-to=type=gha,scope=" \o scope>>
                        ELSE options =
                               <<"--cache-from=type=local,src=/agent_build_output/docker_cache/"
                                     \o scope,
                                 "--cache-to=type=local,dest=/agent_build_output/docker_cache/"
                                     \o scope>>

-----------------------------------------------------------------------------
(* A further property of build_agent_image_dependencies, checked under     *)
(* SpecDeps.                                                               *)

\* C29: every pair recorded in _existing_built_dependencies has its
\* result_dir on disk, and a call for a recorded pair with an output_dir
\* copies the result tree and returns.
C29_RecordedPairHasResultDir ==
    /\ \A q \in DepPairs :
        q[2] \in _existing_built_dependencies[q[1]] => q \in dp_result_dirs
    /\ (dp_last.was_recorded /\ dp_last.output_dir # None)
        => /\ dp_last.copied
           /\ dp_last.result.kind = "returned"

-----------------------------------------------------------------------------
(* A further property of the builder's stages, checked under SpecBuild.    *)

\* the build-engine invocations of a stage in the log of the running call
StageBuilds(stage) ==
    SelectSeq(ib_log, LAMBDA x : x.e = "buildx_build" /\ x.stage = stage)

\* C30: a class's flag of a stage is set only in the step that completes
\* the stage, after one build-engine invocation per architecture (one
\* invocation for the base image) in the same call, with every output of
\* the stage on disk; a call that raised out of an invocation of a stage
\* leaves the class's flag of that stage false; and when the stage is
\* requested while the flag is false, the builds start again from the first
\* architecture.
C30_FlagSetOnlyAfterAllBuilds ==
    /\ [](/\ \A i \in 1..Len(ib_log) :
                (ib_log[i].e = "stage_done" /\ ib_log[i].stage = "requirement_libs")
                    => /\ i = 4
                       /\ "--platform=linux/amd64" \in RangeOf(ib_log[1].cmd)
                       /\ "--platform=linux/arm64" \in RangeOf(ib_log[2].cmd)
                       /\ "--platform=linux/arm/v7" \in RangeOf(ib_log[3].cmd)
                       /\ \A k \in 1..3 : /\ ib_log[k].e = "buildx_build"
                                           /\ ib_log[k].stage = "requirement_libs"
          /\ \A i \in 1..Len(ib_log) :
                (ib_log[i].e = "stage_done" /\ ib_log[i].stage = "final_image_base")
                    => /\ i > 1
                       /\ ib_log[i - 1].e = "buildx_build"
                       /\ ib_log[i - 1].stage = "final_image_base"
          /\ (ib_pc = "done" /\ ib_result.kind = "raised" /\ ib_log # <<>>
                /\ ib_log[Len(ib_log)].e = "buildx_build")
                    => /\ ib_log[Len(ib_log)].stage = "requirement_libs"
                            => ~_requirements_libs_already_built[ib_self.cls.NAME]
                       /\ ib_log[Len(ib_log)].stage = "final_image_base"
                            => ~_final_image_base_already_built[ib_self.cls.NAME])
    /\ [][
           /\ \A n \in BuilderNames :
                (~_requirements_libs_already_built[n] /\ _requirements_libs_already_built'[n])
                    => /\ n = ib_self.cls.NAME
                       /\ ib_log' = Append(ib_log, [e |-> "stage_done",
                                                    stage |-> "requirement_libs",
                                                    cmd |-> <<>>])
                       /\ Len(StageBuilds("requirement_libs")) = 3
                       /\ \A a \in {"x86_64", "aarch64", "armv7"} :
                                fs[arch_dir(ib_self, a)] = "tree"
           /\ \A n \in BuilderNames :
                (~_final_image_base_already_built[n] /\ _final_image_base_already_built'[n])
                    => /\ n = ib_self.cls.NAME
                       /\ Len(StageBuilds("final_image_base")) = 1
                       /\ fs[result_image_oci_layout(ib_self)] = "tree"
           /\ (ib_pc = "build_requirement_libs"
                /\ ~_requirements_libs_already_built[ib_self.cls.NAME]
                /\ ib_pc' # ib_pc)
                    => ib_pc' = "requirement_libs_loop" /\ ib_arch' = 1
           /\ (EngineInvoked /\ bx_call'.stage = Some("requirement_libs"))
                    => "--platform=" \o AsDockerPlatform(SUPPORTED_ARCHITECTURES[
                            Len(StageBuilds("requirement_libs")) + 1])
                            \in RangeOf(cmd_args')
      ]_vars

\* the second call of a process builds the first architecture again for a
\* class whose first architecture an earlier call had built before it failed
C30_Witness ==
    /\ ib_ops = 2
    /\ ib_pc = "requirement_libs_wait"
    /\ ib_arch = 1
    /\ bx_pc = "communicate"
    /\ ~_requirements_libs_already_built[ib_self.cls.NAME]
    /\ fs[arch_dir(ib_self, "x86_64")] = "tree"

====
